---- MODULE Spec2Model ----
(***************************************************************************)
(* fitcheck.api.plan() as a state machine, the `fitcheck plan` command     *)
(* that calls it, and the node operations of the aegis workflow.           *)
(*                                                                         *)
(* A call slot runs one plan() call at a time, statement by statement:     *)
(* TrainingMethod(method.lower()), get_hardware, resolve_model,            *)
(* analyze_local, _resolve_seq_len, the solver (estimate_fixed or the      *)
(* solve search), get_trainable_params, check_training_sanity and          *)
(* _build_report.  Each slot keeps the locals of its call; `invoked` logs  *)
(* the collaborators the call has entered, in order.                       *)
(*                                                                         *)
(* Units: parameters in millions, memory in MB (1 GB = 1000 MB).           *)
(* Optional values: None is the empty tuple, Some(x) the one-tuple <<x>>.  *)
(*                                                                         *)
(* `cli` is one run of the command (cli.py).  `states` holds the           *)
(* AegisState objects a caller of the node operations has references to,   *)
(* oldest first, and `last` describes the latest node call.  Money is in   *)
(* units of 0.0001 USD, losses in thousandths.                             *)
(***************************************************************************)
EXTENDS Integers, Sequences, FiniteSets, TLC

VARIABLES
    pc,                 \* slot -> position of the slot's plan() call
    args,               \* slot -> the arguments of the call
    training_method,    \* slot -> local training_method (api.py:58)
    hardware,           \* slot -> local hardware (api.py:61)
    model_profile,      \* slot -> local model_profile (api.py:64)
    dataset,            \* slot -> local dataset, Optional (api.py:67-69)
    resolved,           \* slot -> (resolved_seq_len, seq_len_reasoning) (api.py:72)
    search,             \* slot -> the state of the solve() loop
    solver_result,      \* slot -> the SolverResult object of the call (api.py:80/90)
    trainable,          \* slot -> local trainable (api.py:100)
    report,             \* slot -> the returned PlanReport, Optional
    raised,             \* slot -> the exception that left plan(), or NoError
    invoked,            \* slot -> collaborators entered by the call, in order
    cli,                \* the run of `fitcheck plan` (cli.py:34-114)
    states,             \* the AegisState objects the caller holds, oldest first
    last                \* the latest node call: node, input, output

vars == <<pc, args, training_method, hardware, model_profile, dataset,
          resolved, search, solver_result, trainable, report, raised, invoked,
          cli, states, last>>

----------------------------------------------------------------------------
(* Optional values *)

None == <<>>

Some(x) == <<x>>

IsNone(o) == o = <<>>

IsSome(o) == o # <<>>

Val(o) == o[1]

Max2(a, b) == IF a >= b THEN a ELSE b

----------------------------------------------------------------------------
(* Bounds of the model *)

\* explicit seq_len arguments are None, 0, -1 and k * SeqLenStep for k = 1..MaxSeqLenSteps
MaxSeqLenSteps == 2

CallIds == {1, 2}

----------------------------------------------------------------------------
(* Arguments a caller may pass *)

SeqLenStep == 512

MethodArgs == {"full", "lora", "qlora", "QLoRA", "banana"}

GpuArgs == {"3090", "A100", "potato"}

ModelArgs == {"meta-llama/Llama-3.1-8B", "test/tiny-1b", "no/such-model"}

SeqLenArgs == {None, Some(0), Some(-1)} \cup {Some(k * SeqLenStep) : k \in 1..MaxSeqLenSteps}

\* batch_size <= 0 is left out: what the solver does with it is decided by
\* TrainingConfig's validation, which is not part of the sources at hand.
BatchSizeArgs == {None, Some(1), Some(2), Some(64)}

LoraRankArgs == {16, 64}

EvalSeqLenArgs == {None, Some(2048)}

DatasetArgs == {None, Some("missing.jsonl"), Some("tiny50.jsonl"),
                Some("mid3000.jsonl"), Some("big5000.jsonl"), Some("empty0.jsonl")}

AllArgs == [model_id : ModelArgs, method : MethodArgs, gpu : GpuArgs,
            seq_len : SeqLenArgs, lora_rank : LoraRankArgs,
            batch_size : BatchSizeArgs, eval_seq_len : EvalSeqLenArgs,
            dataset_path : DatasetArgs]

NoArgs == [model_id |-> "", method |-> "", gpu |-> "", seq_len |-> None,
           lora_rank |-> 16, batch_size |-> None, eval_seq_len |-> None,
           dataset_path |-> None]

----------------------------------------------------------------------------
(* Exceptions *)

NoError == [type |-> "none", origin |-> "none", value |-> None]

Error(t, o, v) == [type |-> t, origin |-> o, value |-> Some(v)]

----------------------------------------------------------------------------
(* TrainingMethod(method.lower())  -- api.py:58 *)

\* str.lower() on the argument alphabet
Lower(s) == CASE s = "QLoRA" -> "qlora"
              [] s = "ON" -> "on"
              [] OTHER -> s

TrainingMethodValues == {"full", "lora", "qlora"}

\* The enum lookup: the member, or ValueError naming the value looked up.
TrainingMethod(value) ==
    IF value \in TrainingMethodValues
    THEN [ok |-> TRUE, value |-> value, error |-> NoError]
    ELSE [ok |-> FALSE, value |-> "",
          error |-> Error("ValueError", "TrainingMethod", value)]

----------------------------------------------------------------------------
(* get_hardware(gpu)  -- api.py:61 *)

NoHardware == [name |-> "", total_vram_gb |-> 0, overhead_gb |-> 0, usable_vram_gb |-> 0]

HardwareSpec(name, total, overhead) ==
    [name |-> name, total_vram_gb |-> total, overhead_gb |-> overhead,
     usable_vram_gb |-> total - overhead]

\* case-insensitive alias normalization
NormalizeGpu(name) == CASE name = "A100" -> "a100"
                        [] OTHER -> name

KnownGpus == {"3090", "a100"}

get_hardware(name) ==
    LET n == NormalizeGpu(name) IN
    CASE n = "3090" -> [ok |-> TRUE, value |-> HardwareSpec("NVIDIA RTX 3090", 24000, 1200),
                        error |-> NoError]
      [] n = "a100" -> [ok |-> TRUE, value |-> HardwareSpec("NVIDIA A100 80GB", 80000, 1500),
                        error |-> NoError]
      [] OTHER -> [ok |-> FALSE, value |-> NoHardware,
                   error |-> Error("KeyError", "get_hardware", name)]

----------------------------------------------------------------------------
(* resolve_model(model_id)  -- api.py:64 *)

NoModel == [model_id |-> "", architecture |-> "", hidden_size |-> 0, num_layers |-> 0,
            vocab_size |-> 0, total_params |-> 0]

\* The answer of the hub resolver (tests/fitcheck/conftest.py:make_llama_8b for
\* the 8B model); total_params in millions.
resolve_model(model_id) ==
    CASE model_id = "meta-llama/Llama-3.1-8B" ->
           [ok |-> TRUE, error |-> NoError,
            value |-> [model_id |-> model_id, architecture |-> "LlamaForCausalLM",
                       hidden_size |-> 4096, num_layers |-> 32,
                       vocab_size |-> 128256, total_params |-> 8030]]
      [] model_id = "test/tiny-1b" ->
           [ok |-> TRUE, error |-> NoError,
            value |-> [model_id |-> model_id, architecture |-> "LlamaForCausalLM",
                       hidden_size |-> 2048, num_layers |-> 22,
                       vocab_size |-> 32000, total_params |-> 1100]]
      [] OTHER -> [ok |-> FALSE, value |-> NoModel,
                   error |-> Error("ValueError", "resolve_model", model_id)]

----------------------------------------------------------------------------
(* analyze_local(dataset_path)  -- api.py:69 *)

NoDataset == [source |-> "", num_rows |-> 0, detected_format |-> "unknown",
              seq_len_stats |-> None]

Stats(p50, p95, p99, mx) == [p50 |-> p50, p95 |-> p95, p99 |-> p99, max |-> mx]

\* A DatasetProfile has num_rows >= 0 and optional token-length statistics;
\* a file with no rows to sample has num_rows = 0 and no token in any
\* percentile.
analyze_local(path) ==
    CASE path = "tiny50.jsonl" ->
           [ok |-> TRUE, error |-> NoError,
            value |-> [source |-> path, num_rows |-> 50, detected_format |-> "alpaca",
                       seq_len_stats |-> Some(Stats(600, 870, 900, 950))]]
      [] path = "mid3000.jsonl" ->
           [ok |-> TRUE, error |-> NoError,
            value |-> [source |-> path, num_rows |-> 3000, detected_format |-> "unknown",
                       seq_len_stats |-> None]]
      [] path = "big5000.jsonl" ->
           [ok |-> TRUE, error |-> NoError,
            value |-> [source |-> path, num_rows |-> 5000, detected_format |-> "alpaca",
                       seq_len_stats |-> Some(Stats(400, 640, 700, 800))]]
      [] path = "empty0.jsonl" ->
           [ok |-> TRUE, error |-> NoError,
            value |-> [source |-> path, num_rows |-> 0, detected_format |-> "unknown",
                       seq_len_stats |-> Some(Stats(0, 0, 0, 0))]]
      [] OTHER -> [ok |-> FALSE, value |-> NoDataset,
                   error |-> Error("FileNotFoundError", "analyze_local", path)]

----------------------------------------------------------------------------
(* _resolve_seq_len(explicit, dataset)  -- api.py:129-146 *)

_DEFAULT_SEQ_LEN == 512

\* An f-string with one number in it: the text before, the number, the text after.
Reasoning(prefix, n, suffix) == [prefix |-> prefix, n |-> n, suffix |-> suffix]

NoReasoning == Reasoning("", 0, "")

NoResolved == [seq_len |-> 0, reasoning |-> NoReasoning]

Resolved(n, reasoning) ==
    [ok |-> TRUE, error |-> NoError, value |-> [seq_len |-> n, reasoning |-> reasoning]]

\* api.py:137
ExplicitGiven(explicit) == IsSome(explicit)

\* api.py:138-140
ExplicitBranch(explicit) ==
    IF explicit <= 0
    THEN [ok |-> FALSE, value |-> NoResolved,
          error |-> Error("ValueError", "_resolve_seq_len", explicit)]
    ELSE Resolved(explicit, Reasoning("--seq-len ", explicit, ""))

\* api.py:142
HasStats(ds) == IsSome(ds) /\ IsSome(Val(ds).seq_len_stats)

\* api.py:143-144
DatasetBranch(ds) ==
    LET p95 == Val(Val(ds).seq_len_stats).p95 IN
    Resolved(p95, Reasoning("dataset p95 (", p95, " tokens)"))

\* api.py:146
DefaultBranch == Resolved(_DEFAULT_SEQ_LEN, Reasoning("default (", _DEFAULT_SEQ_LEN, ")"))

\* The dataset statistics consulted before the explicit value.
ResolveDatasetFirst(explicit, ds) ==
    IF HasStats(ds) THEN DatasetBranch(ds)
    ELSE IF ExplicitGiven(explicit) THEN ExplicitBranch(Val(explicit))
    ELSE DefaultBranch

\* `if explicit:` in place of `if explicit is not None:`: 0 counts as absent.
ResolveZeroAsAbsent(explicit, ds) ==
    IF ExplicitGiven(explicit) /\ Val(explicit) # 0 THEN ExplicitBranch(Val(explicit))
    ELSE IF HasStats(ds) THEN DatasetBranch(ds)
    ELSE DefaultBranch

_resolve_seq_len(explicit, ds) ==
    IF ExplicitGiven(explicit) THEN ExplicitBranch(Val(explicit))
    ELSE IF HasStats(ds) THEN DatasetBranch(ds)
    ELSE DefaultBranch

----------------------------------------------------------------------------
(* VRAM component model (fitcheck.profilers.vram) *)

\* Fan-out of the adapter matrices per layer and rank: rank 16 on the 8B model
\* gives about 160M trainable parameters.
LoraFanout == 76

\* Bytes of activations kept per hidden element, layer and token.
ActBytesPerElem == 16

\* dynamic margin, in thousandths of the summed components
MarginPermille == 65

\* ceil(sqrt(n)) for the layer counts of the model
CeilSqrt(n) == CHOOSE k \in 0..n : k * k >= n /\ (k = 0 \/ (k - 1) * (k - 1) < n)

\* get_trainable_params(model, method, lora_config), in millions  -- api.py:100
get_trainable_params(m, method, rank) ==
    IF method = "full"
    THEN m.total_params
    ELSE (rank * m.hidden_size * m.num_layers * LoraFanout) \div 1000000

WeightsMB(m, method, rank) ==
    LET t == get_trainable_params(m, method, rank) IN
    CASE method = "full" -> 2 * m.total_params
      [] method = "lora" -> 2 * m.total_params + 4 * t
      [] OTHER -> m.total_params \div 2 + 4 * t

OptimizerMB(m, method, rank) ==
    LET t == get_trainable_params(m, method, rank) IN
    IF method = "full" THEN 2 * 4 * t ELSE t

GradientsMB(m, method, rank) == 2 * get_trainable_params(m, method, rank)

ActivationsMB(m, mbs, seq, gc) ==
    LET layers == IF gc THEN CeilSqrt(m.num_layers) ELSE m.num_layers IN
    (((mbs * seq * m.hidden_size) \div 1024) * layers * ActBytesPerElem) \div 1024

LogitsMB(m, mbs, seq) == (mbs * seq * ((m.vocab_size * 4) \div 1000)) \div 1000

Component(name, bytes) == [name |-> name, bytes |-> bytes]

VRAMBreakdown(m, method, rank, mbs, seq, gc) ==
    LET w == WeightsMB(m, method, rank)
        o == OptimizerMB(m, method, rank)
        g == GradientsMB(m, method, rank)
        a == ActivationsMB(m, mbs, seq, gc)
        l == LogitsMB(m, mbs, seq)
    IN [weights |-> Component("Model weights", w),
        optimizer |-> Component("Optimizer states", o),
        gradients |-> Component("Gradients", g),
        activations |-> Component("Activations", a),
        logits_buffer |-> Component("Logits buffer", l),
        dynamic_margin_bytes |-> ((w + o + g + a + l) * MarginPermille) \div 1000]

\* VRAMBreakdown.total: the live sum of the fields
TotalMB(bd) == bd.weights.bytes + bd.optimizer.bytes + bd.gradients.bytes
               + bd.activations.bytes + bd.logits_buffer.bytes + bd.dynamic_margin_bytes

----------------------------------------------------------------------------
(* Config solver (fitcheck.solver.ConfigSolver) *)

\* the ceiling of the batch-size search
MaxBatchSize == 64

\* effective batch size that gradient accumulation aims at
TargetEffectiveBatch == 16

\* the logits buffer is flagged above this percentage of the total
LogitsWarnPercent == 15

Fits(m, hw, method, rank, mbs, seq, gc) ==
    TotalMB(VRAMBreakdown(m, method, rank, mbs, seq, gc)) <= hw.usable_vram_gb

NoConfig == [micro_batch_size |-> 0, gradient_accumulation_steps |-> 0,
             effective_batch_size |-> 0, seq_len |-> 0,
             gradient_checkpointing |-> FALSE, optimizer |-> "", lora_rank |-> 0,
             vram_breakdown |-> VRAMBreakdown(NoModel, "full", 0, 0, 0, FALSE),
             reasoning |-> [verdict |-> "", required |-> 0, usable |-> 0]]

NoSolverResult == [recommended |-> NoConfig, aggressive |-> None, warnings |-> <<>>]

\* One TrainingConfig with its breakdown; the verdict is taken against `budget`.
TrainingConfig(m, hw, method, rank, mbs, seq, gc, budget) ==
    LET bd == VRAMBreakdown(m, method, rank, mbs, seq, gc)
        ga == Max2(1, (TargetEffectiveBatch + mbs - 1) \div Max2(1, mbs))
    IN [micro_batch_size |-> mbs,
        gradient_accumulation_steps |-> ga,
        effective_batch_size |-> mbs * ga,
        seq_len |-> seq,
        gradient_checkpointing |-> gc,
        optimizer |-> IF method = "full" THEN "adamw" ELSE "paged_adamw_8bit",
        lora_rank |-> rank,
        vram_breakdown |-> bd,
        reasoning |-> [verdict |-> IF TotalMB(bd) <= budget THEN "fits" ELSE "does_not_fit",
                       required |-> TotalMB(bd), usable |-> hw.usable_vram_gb]]

\* A warning is a string; the model keeps the pieces it is formatted from.
LogitsWarning == <<"Logits buffer is large.">>

EvalSpikeWarning == <<"Eval logits spike exceeds the steady state.">>

SolverWarnings(cfg, eval_seq_len) ==
    (IF cfg.vram_breakdown.logits_buffer.bytes * 100
          > LogitsWarnPercent * TotalMB(cfg.vram_breakdown)
     THEN <<LogitsWarning>> ELSE <<>>)
    \o (IF IsSome(eval_seq_len) /\ Val(eval_seq_len) > cfg.seq_len
        THEN <<EvalSpikeWarning>> ELSE <<>>)

\* estimate_fixed: the one configuration asked for, checkpointing enabled only
\* when the batch size does not fit without it; no aggressive alternative.
estimate_fixed(m, hw, method, batch_size, seq, rank, eval_seq_len) ==
    LET gc == ~Fits(m, hw, method, rank, batch_size, seq, FALSE)
        cfg == TrainingConfig(m, hw, method, rank, batch_size, seq, gc, hw.usable_vram_gb)
    IN [recommended |-> cfg, aggressive |-> None,
        warnings |-> SolverWarnings(cfg, eval_seq_len)]

\* The loop variable is not advanced.
NextCandidateStuck(mbs) == mbs

\* The candidate after mbs in the search order 1, 2, 4, ..., MaxBatchSize.
NextCandidate(mbs) == 2 * mbs

\* solve(), first step: checkpointing is enabled only if batch size 1 needs it.
SolveFirst(m, hw, method, rank, seq) ==
    LET gc == ~Fits(m, hw, method, rank, 1, seq, FALSE) IN
    [mbs |-> 1, gc |-> gc, fits |-> Fits(m, hw, method, rank, 1, seq, gc)]

\* solve(), loop condition: the next candidate is under the ceiling and fits.
CanGrow(m, hw, method, rank, seq, s) ==
    /\ s.fits
    /\ NextCandidate(s.mbs) <= MaxBatchSize
    /\ Fits(m, hw, method, rank, NextCandidate(s.mbs), seq, s.gc)

\* The aggressive alternative: one further batch step, within the raw VRAM of the card.
Aggressive(m, hw, method, rank, seq, s) ==
    LET cfg == TrainingConfig(m, hw, method, rank, NextCandidate(s.mbs), seq, s.gc,
                              hw.total_vram_gb)
    IN IF s.fits /\ NextCandidate(s.mbs) <= MaxBatchSize /\ cfg.reasoning.verdict = "fits"
       THEN Some(cfg) ELSE None

\* solve(), result of the finished search
SolveResult(m, hw, method, rank, seq, eval_seq_len, s) ==
    LET cfg == TrainingConfig(m, hw, method, rank, s.mbs, seq, s.gc, hw.usable_vram_gb) IN
    [recommended |-> cfg,
     aggressive |-> Aggressive(m, hw, method, rank, seq, s),
     warnings |-> SolverWarnings(cfg, eval_seq_len)]

----------------------------------------------------------------------------
(* Sanity checker (fitcheck.profilers.sanity.check_training_sanity) *)

\* rows per million trainable parameters below which overfitting is critical
CriticalRowsPerMParam == 10

\* ... and up to which it is a warning
SoftRowsPerMParam == 30

SanityWarning(severity, category, message) ==
    [severity |-> severity, category |-> category, message |-> message]

\* ratio = num_rows / (trainable_params / 1e6); trainable is in millions here,
\* so ratio < k  iff  num_rows < k * trainable.
OverfittingRule(num_rows, trainable_m) ==
    IF num_rows < CriticalRowsPerMParam * trainable_m
    THEN <<SanityWarning("critical", "overfitting", "very few rows per trainable parameter")>>
    ELSE IF num_rows <= SoftRowsPerMParam * trainable_m
         THEN <<SanityWarning("warning", "overfitting", "few rows per trainable parameter")>>
         ELSE <<>>

InsufficientDataRule(num_rows, cfg) ==
    IF num_rows < cfg.effective_batch_size
    THEN <<SanityWarning("warning", "insufficient_data", "dataset cannot fill one batch")>>
    ELSE <<>>

check_training_sanity(ds, cfg, trainable_m) ==
    OverfittingRule(ds.num_rows, trainable_m) \o InsufficientDataRule(ds.num_rows, cfg)

\* f"[{w.severity}] {w.category}: {w.message}"  -- api.py:111
FormatWarning(w) == <<"[", w.severity, "] ", w.category, ": ", w.message>>

RECURSIVE FormatAll(_)
FormatAll(ws) == IF ws = <<>> THEN <<>>
                 ELSE <<FormatWarning(Head(ws))>> \o FormatAll(Tail(ws))

\* The sanity warnings are put in front of the solver's.
PrependWarnings(warnings, formatted) == formatted \o warnings

\* api.py:110-111  solver_result.warnings.append(...) for each, in order
AppendWarnings(warnings, formatted) == warnings \o formatted

----------------------------------------------------------------------------
(* _build_report  -- api.py:149-197 *)

NoReport == None

\* total_vram_gb and usable_vram_gb exchanged in the report.
BuildReportSwapped(m, hw, method, rs, t, sr, ds) ==
    [model_id |-> m.model_id,
     architecture_summary |-> m.architecture,
     total_params_b |-> m.total_params,
     vocab_size |-> m.vocab_size,
     num_layers |-> m.num_layers,
     dataset_source |-> IF IsSome(ds) THEN Val(ds).source ELSE "none",
     dataset_rows |-> IF IsSome(ds) THEN Val(ds).num_rows ELSE 0,
     dataset_format |-> IF IsSome(ds) THEN Val(ds).detected_format ELSE "unknown",
     seq_len_stats |-> IF IsSome(ds) THEN Val(ds).seq_len_stats ELSE None,
     seq_len_used |-> rs.seq_len,
     seq_len_reasoning |-> rs.reasoning,
     hardware_name |-> hw.name,
     total_vram_gb |-> hw.usable_vram_gb,
     overhead_gb |-> hw.overhead_gb,
     usable_vram_gb |-> hw.total_vram_gb,
     method |-> method,
     trainable_params |-> t,
     trainable_pct |-> (t * 10000) \div m.total_params,
     samples_per_epoch |-> IF IsSome(ds) THEN Val(ds).num_rows ELSE 0,
     solver_result |-> sr]

\* trainable_pct is kept in hundredths of a percent.
_build_report(m, hw, method, rs, t, sr, ds) ==
    [model_id |-> m.model_id,
     architecture_summary |-> m.architecture,
     total_params_b |-> m.total_params,
     vocab_size |-> m.vocab_size,
     num_layers |-> m.num_layers,
     dataset_source |-> IF IsSome(ds) THEN Val(ds).source ELSE "none",
     dataset_rows |-> IF IsSome(ds) THEN Val(ds).num_rows ELSE 0,
     dataset_format |-> IF IsSome(ds) THEN Val(ds).detected_format ELSE "unknown",
     seq_len_stats |-> IF IsSome(ds) THEN Val(ds).seq_len_stats ELSE None,
     seq_len_used |-> rs.seq_len,
     seq_len_reasoning |-> rs.reasoning,
     hardware_name |-> hw.name,
     total_vram_gb |-> hw.total_vram_gb,
     overhead_gb |-> hw.overhead_gb,
     usable_vram_gb |-> hw.usable_vram_gb,
     method |-> method,
     trainable_params |-> t,
     trainable_pct |-> (t * 10000) \div m.total_params,
     samples_per_epoch |-> IF IsSome(ds) THEN Val(ds).num_rows ELSE 0,
     solver_result |-> sr]

----------------------------------------------------------------------------
(* plan()  -- api.py:27-126 *)

\* str.lower() left out of api.py:58.
LowerOmitted(s) == s

\* api.py:58, the string handed to the enum
MethodKey(method) == Lower(method)

\* The dataset is never analyzed.
AnalyzesNever(path) == FALSE

\* api.py:68
AnalyzesDataset(path) == IsSome(path)

\* batch_size is ignored and the search always runs.
UsesFixedNever(batch_size) == FALSE

\* api.py:79
UsesFixed(batch_size) == IsSome(batch_size)

\* The sanity checker is never run.
SanityNever(ds) == FALSE

\* api.py:104
SanityApplies(ds) == IsSome(ds)

\* One SolverResult object kept by the module and handed to every call.
ResultShared(c) == 1

\* api.py:78-97: the SolverResult a call works on is the object its own,
\* freshly built ConfigSolver returned to it.
ResultOf(c) == c

PlanInit ==
    /\ pc = [c \in CallIds |-> "idle"]
    /\ args = [c \in CallIds |-> NoArgs]
    /\ training_method = [c \in CallIds |-> ""]
    /\ hardware = [c \in CallIds |-> NoHardware]
    /\ model_profile = [c \in CallIds |-> NoModel]
    /\ dataset = [c \in CallIds |-> None]
    /\ resolved = [c \in CallIds |-> NoResolved]
    /\ search = [c \in CallIds |-> [mbs |-> 0, gc |-> FALSE, fits |-> FALSE]]
    /\ solver_result = [c \in CallIds |-> NoSolverResult]
    /\ trainable = [c \in CallIds |-> 0]
    /\ report = [c \in CallIds |-> NoReport]
    /\ raised = [c \in CallIds |-> NoError]
    /\ invoked = [c \in CallIds |-> <<>>]

\* No command is running.
CliIdle ==
    [pc |-> "idle", argv |-> None, parsed |-> None,
     model |-> None, method |-> None, gpu |-> None, dataset |-> None, seq_len |-> None,
     api |-> None, exit_code |-> None, printed |-> None, err |-> None]

\* No node has been called.
NoCall == [node |-> "none", inp |-> 0, out |-> 0, arg |-> None, raised |-> FALSE,
           before |-> None]

Init ==
    /\ PlanInit
    /\ cli = CliIdle
    /\ states = <<>>
    /\ last = NoCall

\* plan() is entered in slot c with the arguments a (api.py:27-36).
Enter(c, a) ==
    /\ pc[c] = "idle"
    /\ args' = [args EXCEPT ![c] = a]
    /\ pc' = [pc EXCEPT ![c] = "method"]
    /\ UNCHANGED <<training_method, hardware, model_profile, dataset, resolved, search,
                   solver_result, trainable, report, raised, invoked>>

\* The caller is done with the report or the exception; the locals of the call
\* are gone and the slot is free for the next call.
Leave(c) ==
    /\ pc[c] \in {"done", "raised"}
    /\ pc' = [pc EXCEPT ![c] = "idle"]
    /\ args' = [args EXCEPT ![c] = NoArgs]
    /\ training_method' = [training_method EXCEPT ![c] = ""]
    /\ hardware' = [hardware EXCEPT ![c] = NoHardware]
    /\ model_profile' = [model_profile EXCEPT ![c] = NoModel]
    /\ dataset' = [dataset EXCEPT ![c] = None]
    /\ resolved' = [resolved EXCEPT ![c] = NoResolved]
    /\ search' = [search EXCEPT ![c] = [mbs |-> 0, gc |-> FALSE, fits |-> FALSE]]
    /\ solver_result' = [solver_result EXCEPT ![c] = NoSolverResult]
    /\ trainable' = [trainable EXCEPT ![c] = 0]
    /\ report' = [report EXCEPT ![c] = NoReport]
    /\ raised' = [raised EXCEPT ![c] = NoError]
    /\ invoked' = [invoked EXCEPT ![c] = <<>>]

\* A caller enters plan() with arguments from A.
Call(c, A) ==
    /\ pc[c] = "idle"
    /\ \E a \in A : Enter(c, a)
    /\ UNCHANGED <<cli, states, last>>

\* A caller of plan() takes the report or the exception.
Return(c) ==
    /\ Leave(c)
    /\ UNCHANGED <<cli, states, last>>

\* api.py:58  training_method = TrainingMethod(method.lower())
ResolveMethod(c) ==
    /\ pc[c] = "method"
    /\ LET r == TrainingMethod(MethodKey(args[c].method)) IN
       /\ invoked' = [invoked EXCEPT ![c] = Append(@, "TrainingMethod")]
       /\ training_method' = [training_method EXCEPT ![c] = r.value]
       /\ raised' = [raised EXCEPT ![c] = r.error]
       /\ pc' = [pc EXCEPT ![c] = IF r.ok THEN "hardware" ELSE "raised"]
    /\ UNCHANGED <<args, hardware, model_profile, dataset, resolved, search,
                   solver_result, trainable, report>>
    /\ UNCHANGED <<cli, states, last>>

\* api.py:61  hardware = get_hardware(gpu)
GetHardware(c) ==
    /\ pc[c] = "hardware"
    /\ LET r == get_hardware(args[c].gpu) IN
       /\ invoked' = [invoked EXCEPT ![c] = Append(@, "get_hardware")]
       /\ hardware' = [hardware EXCEPT ![c] = r.value]
       /\ raised' = [raised EXCEPT ![c] = r.error]
       /\ pc' = [pc EXCEPT ![c] = IF r.ok THEN "model" ELSE "raised"]
    /\ UNCHANGED <<args, training_method, model_profile, dataset, resolved, search,
                   solver_result, trainable, report>>
    /\ UNCHANGED <<cli, states, last>>

\* api.py:64  model_profile = resolve_model(model_id)
ResolveModel(c) ==
    /\ pc[c] = "model"
    /\ LET r == resolve_model(args[c].model_id) IN
       /\ invoked' = [invoked EXCEPT ![c] = Append(@, "resolve_model")]
       /\ model_profile' = [model_profile EXCEPT ![c] = r.value]
       /\ raised' = [raised EXCEPT ![c] = r.error]
       /\ pc' = [pc EXCEPT ![c] = IF r.ok THEN "dataset" ELSE "raised"]
    /\ UNCHANGED <<args, training_method, hardware, dataset, resolved, search,
                   solver_result, trainable, report>>
    /\ UNCHANGED <<cli, states, last>>

\* api.py:67-69  dataset = analyze_local(dataset_path) if a path is given
AnalyzeDataset(c) ==
    /\ pc[c] = "dataset"
    /\ IF AnalyzesDataset(args[c].dataset_path)
       THEN LET r == analyze_local(Val(args[c].dataset_path)) IN
            /\ invoked' = [invoked EXCEPT ![c] = Append(@, "analyze_local")]
            /\ dataset' = [dataset EXCEPT ![c] = IF r.ok THEN Some(r.value) ELSE None]
            /\ raised' = [raised EXCEPT ![c] = r.error]
            /\ pc' = [pc EXCEPT ![c] = IF r.ok THEN "seq_len" ELSE "raised"]
       ELSE /\ pc' = [pc EXCEPT ![c] = "seq_len"]
            /\ UNCHANGED <<invoked, dataset, raised>>
    /\ UNCHANGED <<args, training_method, hardware, model_profile, resolved, search,
                   solver_result, trainable, report>>
    /\ UNCHANGED <<cli, states, last>>

\* api.py:72  resolved_seq_len, seq_len_reasoning = _resolve_seq_len(seq_len, dataset)
ResolveSeqLen(c) ==
    /\ pc[c] = "seq_len"
    /\ LET r == _resolve_seq_len(args[c].seq_len, dataset[c]) IN
       /\ invoked' = [invoked EXCEPT ![c] = Append(@, "_resolve_seq_len")]
       /\ resolved' = [resolved EXCEPT ![c] = r.value]
       /\ raised' = [raised EXCEPT ![c] = r.error]
       /\ pc' = [pc EXCEPT ![c] = IF r.ok THEN "solver" ELSE "raised"]
    /\ UNCHANGED <<args, training_method, hardware, model_profile, dataset, search,
                   solver_result, trainable, report>>
    /\ UNCHANGED <<cli, states, last>>

\* api.py:79-88  solver_result = solver.estimate_fixed(...)
EstimateFixed(c) ==
    /\ pc[c] = "solver"
    /\ UsesFixed(args[c].batch_size)
    /\ invoked' = [invoked EXCEPT ![c] = Append(@, "estimate_fixed")]
    /\ solver_result' = [solver_result EXCEPT ![ResultOf(c)] =
          estimate_fixed(model_profile[c], hardware[c], training_method[c],
                         Val(args[c].batch_size), resolved[c].seq_len,
                         args[c].lora_rank, args[c].eval_seq_len)]
    /\ pc' = [pc EXCEPT ![c] = "trainable"]
    /\ UNCHANGED <<args, training_method, hardware, model_profile, dataset, resolved,
                   search, trainable, report, raised>>
    /\ UNCHANGED <<cli, states, last>>

\* api.py:89-97  solver.solve(...) is entered: batch size 1 is evaluated
SolveBegin(c) ==
    /\ pc[c] = "solver"
    /\ ~UsesFixed(args[c].batch_size)
    /\ invoked' = [invoked EXCEPT ![c] = Append(@, "solve")]
    /\ search' = [search EXCEPT ![c] =
          SolveFirst(model_profile[c], hardware[c], training_method[c],
                     args[c].lora_rank, resolved[c].seq_len)]
    /\ pc' = [pc EXCEPT ![c] = "search"]
    /\ UNCHANGED <<args, training_method, hardware, model_profile, dataset, resolved,
                   solver_result, trainable, report, raised>>
    /\ UNCHANGED <<cli, states, last>>

\* solve(): one turn of the search loop, to the next candidate
SolveStep(c) ==
    /\ pc[c] = "search"
    /\ CanGrow(model_profile[c], hardware[c], training_method[c], args[c].lora_rank,
               resolved[c].seq_len, search[c])
    /\ search' = [search EXCEPT ![c].mbs = NextCandidate(@)]
    /\ UNCHANGED <<pc, args, training_method, hardware, model_profile, dataset, resolved,
                   solver_result, trainable, report, raised, invoked>>
    /\ UNCHANGED <<cli, states, last>>

\* solve(): the loop ends and the SolverResult is returned to plan()
SolveReturn(c) ==
    /\ pc[c] = "search"
    /\ ~CanGrow(model_profile[c], hardware[c], training_method[c], args[c].lora_rank,
                resolved[c].seq_len, search[c])
    /\ solver_result' = [solver_result EXCEPT ![ResultOf(c)] =
          SolveResult(model_profile[c], hardware[c], training_method[c],
                      args[c].lora_rank, resolved[c].seq_len, args[c].eval_seq_len,
                      search[c])]
    /\ pc' = [pc EXCEPT ![c] = "trainable"]
    /\ UNCHANGED <<args, training_method, hardware, model_profile, dataset, resolved,
                   search, trainable, report, raised, invoked>>
    /\ UNCHANGED <<cli, states, last>>

\* api.py:100-101  trainable = get_trainable_params(...)
Trainable(c) ==
    /\ pc[c] = "trainable"
    /\ invoked' = [invoked EXCEPT ![c] = Append(@, "get_trainable_params")]
    /\ trainable' = [trainable EXCEPT ![c] =
          get_trainable_params(model_profile[c], training_method[c], args[c].lora_rank)]
    /\ pc' = [pc EXCEPT ![c] = "sanity"]
    /\ UNCHANGED <<args, training_method, hardware, model_profile, dataset, resolved,
                   search, solver_result, report, raised>>
    /\ UNCHANGED <<cli, states, last>>

\* api.py:104-111  the sanity warnings are appended to solver_result.warnings
Sanity(c) ==
    /\ pc[c] = "sanity"
    /\ IF SanityApplies(dataset[c])
       THEN /\ invoked' = [invoked EXCEPT ![c] = Append(@, "check_training_sanity")]
            /\ solver_result' = [solver_result EXCEPT ![ResultOf(c)].warnings =
                  AppendWarnings(@, FormatAll(check_training_sanity(Val(dataset[c]),
                                     solver_result[ResultOf(c)].recommended,
                                     trainable[c])))]
       ELSE UNCHANGED <<invoked, solver_result>>
    /\ pc' = [pc EXCEPT ![c] = "report"]
    /\ UNCHANGED <<args, training_method, hardware, model_profile, dataset, resolved,
                   search, trainable, report, raised>>
    /\ UNCHANGED <<cli, states, last>>

\* api.py:114-126  report = _build_report(...); return report
BuildReport(c) ==
    /\ pc[c] = "report"
    /\ invoked' = [invoked EXCEPT ![c] = Append(@, "_build_report")]
    /\ report' = [report EXCEPT ![c] =
          Some(_build_report(model_profile[c], hardware[c], training_method[c],
                             resolved[c], trainable[c], solver_result[ResultOf(c)],
                             dataset[c]))]
    /\ pc' = [pc EXCEPT ![c] = "done"]
    /\ UNCHANGED <<args, training_method, hardware, model_profile, dataset, resolved,
                   search, solver_result, trainable, raised>>
    /\ UNCHANGED <<cli, states, last>>

\* One statement of the plan() call in slot c.
Step(c) ==
    \/ ResolveMethod(c)
    \/ GetHardware(c)
    \/ ResolveModel(c)
    \/ AnalyzeDataset(c)
    \/ ResolveSeqLen(c)
    \/ EstimateFixed(c)
    \/ SolveBegin(c)
    \/ SolveStep(c)
    \/ SolveReturn(c)
    \/ Trainable(c)
    \/ Sanity(c)
    \/ BuildReport(c)

----------------------------------------------------------------------------
(* One caller: every argument combination, one call after the other. *)

Next == Call(1, AllArgs) \/ Step(1) \/ Return(1)

Spec == Init /\ [][Next]_vars

----------------------------------------------------------------------------
(* One caller whose calls all reach the solver; a call that has a next
   statement runs it (plan() is synchronous code). *)

SolverArgs == {a \in AllArgs :
                 /\ TrainingMethod(Lower(a.method)).ok
                 /\ get_hardware(a.gpu).ok
                 /\ resolve_model(a.model_id).ok
                 /\ a.dataset_path \in {None, Some("tiny50.jsonl")}
                 /\ (IsNone(a.seq_len) \/ Val(a.seq_len) > 0)
                 /\ a.batch_size \in {None, Some(2)}
                 /\ a.eval_seq_len = None}

NextLive == Call(1, SolverArgs) \/ Step(1) \/ Return(1)

SpecLive == Init /\ [][NextLive]_vars /\ WF_vars(Step(1))

----------------------------------------------------------------------------
(* Two callers whose calls interleave statement by statement. *)

PairArgs == {a \in AllArgs :
               /\ a.model_id = "meta-llama/Llama-3.1-8B"
               /\ a.gpu = "3090"
               /\ a.method \in {"qlora", "full"}
               /\ a.seq_len = None
               /\ a.lora_rank = 16
               /\ a.eval_seq_len = None
               /\ a.batch_size \in {None, Some(2)}
               /\ a.dataset_path \in {None, Some("tiny50.jsonl"), Some("big5000.jsonl")}}

NextPair == \E c \in CallIds : Call(c, PairArgs) \/ Step(c) \/ Return(c)

SpecPair == Init /\ [][NextPair]_vars

----------------------------------------------------------------------------
(* parse_spec()  -- nlparse.py:34-66 *)

\* A spec string is kept as its words: spec.strip() and the \s+ between the
\* groups of _SPEC_PATTERN make the whitespace itself irrelevant, and every
\* group is \S+, one word.
Llama == "meta-llama/Llama-3.1-8B"

SpecStrings ==
    { <<"qlora", Llama, "on", "3090">>,
      <<"QLoRA", Llama, "ON", "3090">>,
      <<"full", Llama, "on", "3090">>,
      <<"lora", Llama, "on", "potato">>,
      <<"qlora", Llama, "on", "3090", "with", "tiny50.jsonl">>,
      <<"qlora", Llama, "on", "3090", "with", "missing.jsonl">>,
      <<"qlora", Llama, "on", "3090", "at", "1024">>,
      <<"qlora", Llama, "on", "3090", "at", "0">>,
      <<"qlora", Llama, "on", "3090", "with", "tiny50.jsonl", "at", "1024">>,
      <<"banana", Llama, "on", "3090">>,
      <<"qlora", Llama, "3090">>,
      <<"qlora", Llama, "on", "3090", "at", "lots">>,
      <<"qlora", Llama, "on", "3090", "at", "1024", "with", "tiny50.jsonl">>,
      <<>> }

\* \d+ : the words made of digits, with int() of each
DigitWords == {"0", "1024"}

int(w) == CASE w = "0" -> 0
            [] w = "1024" -> 1024

\* nlparse.py:35  (full|lora|qlora), re.IGNORECASE
SpecMethods == {"full", "lora", "qlora"}

\* nlparse.py:34-44  _SPEC_PATTERN.match: the five groups, or None
Groups(method, model_id, gpu, dataset_path, seq_len_str) ==
    Some([method |-> method, model_id |-> model_id, gpu |-> gpu,
          dataset_path |-> dataset_path, seq_len_str |-> seq_len_str])

HeadMatches(w) ==
    /\ Len(w) >= 4
    /\ Lower(w[1]) \in SpecMethods
    /\ Lower(w[3]) = "on"

_SPEC_PATTERN(w) ==
    IF ~HeadMatches(w) THEN None
    ELSE CASE Len(w) = 4 -> Groups(w[1], w[2], w[4], None, None)
           [] Len(w) = 6 /\ Lower(w[5]) = "with" ->
                  Groups(w[1], w[2], w[4], Some(w[6]), None)
           [] Len(w) = 6 /\ Lower(w[5]) = "at" /\ w[6] \in DigitWords ->
                  Groups(w[1], w[2], w[4], None, Some(w[6]))
           [] Len(w) = 8 /\ Lower(w[5]) = "with" /\ Lower(w[7]) = "at"
                         /\ w[8] \in DigitWords ->
                  Groups(w[1], w[2], w[4], Some(w[6]), Some(w[8]))
           [] OTHER -> None

\* nlparse.py:60-66
ParsedSpec(method, model_id, gpu, dataset_path, seq_len) ==
    [method |-> method, model_id |-> model_id, gpu |-> gpu,
     dataset_path |-> dataset_path, seq_len |-> seq_len]

\* nlparse.py:47-66
parse_spec(spec) ==
    LET match == _SPEC_PATTERN(spec) IN
    IF IsNone(match) THEN None
    ELSE LET g == Val(match) IN
         Some(ParsedSpec(Lower(g.method), g.model_id, g.gpu, g.dataset_path,
                         IF IsSome(g.seq_len_str)
                         THEN Some(int(Val(g.seq_len_str))) ELSE None))

----------------------------------------------------------------------------
(* The `fitcheck plan` command  -- cli.py:34-114 *)

planVars == <<pc, args, training_method, hardware, model_profile, dataset,
              resolved, search, solver_result, trainable, report, raised, invoked>>

\* The command line: the positional spec and the options, None when not given.
CliArgv ==
    [spec : {None} \cup {Some(w) : w \in SpecStrings},
     model : {None, Some(""), Some("test/tiny-1b")},
     method : {None, Some(""), Some("lora")},
     gpu : {None, Some(""), Some("A100")},
     seq_len : {None, Some(0), Some(SeqLenStep)},
     lora_rank : {16},
     batch_size : {None, Some(2)},
     eval_seq_len : {None},
     dataset : {None, Some(""), Some("big5000.jsonl")}]

\* Python truth of an Optional[str]: None and "" are false.
Truthy(o) == IsSome(o) /\ Val(o) # ""

\* a or b
Or(a, b) == IF Truthy(a) THEN a ELSE b

\* A sequence length of the command's own when neither source has one.
SeqLenDefaulted(flag, parsed) ==
    IF IsNone(flag) THEN (IF IsNone(parsed) THEN Some(_DEFAULT_SEQ_LEN) ELSE parsed)
    ELSE flag

\* cli.py:79-80
SeqLenMerge(flag, parsed) == IF IsNone(flag) THEN parsed ELSE flag

\* cli.py:67
ParseFailed(parsed) == IsNone(parsed)

\* cli.py:83
Missing(model, method, gpu) == ~Truthy(model) \/ ~Truthy(method) \/ ~Truthy(gpu)

\* cli.py:84-90
MissingOptions(model, method, gpu) ==
    (IF ~Truthy(model) THEN <<"--model">> ELSE <<>>)
    \o (IF ~Truthy(method) THEN <<"--method">> ELSE <<>>)
    \o (IF ~Truthy(gpu) THEN <<"--gpu">> ELSE <<>>)

\* cli.py:110
Caught(e) == e.type \in {"ValueError", "KeyError", "FileNotFoundError"}

\* cli.py:100-109
ApiArgs(r, argv) ==
    [model_id |-> Val(r.model), method |-> Val(r.method), gpu |-> Val(r.gpu),
     seq_len |-> r.seq_len, lora_rank |-> argv.lora_rank,
     batch_size |-> argv.batch_size, eval_seq_len |-> argv.eval_seq_len,
     dataset_path |-> r.dataset]

\* typer.Exit() without a code: the command ends with code 0.
ExitWithoutCode(r, message) ==
    [r EXCEPT !.pc = "exit", !.exit_code = Some(0), !.err = Some(message)]

\* cli.py:73, 96, 112  raise typer.Exit(code=1) after the message on stderr
ExitWithError(r, message) ==
    [r EXCEPT !.pc = "exit", !.exit_code = Some(1), !.err = Some(message)]

\* cli.py:59-63  the command starts, the resolved_* locals are the flags
CliInvoke(V) ==
    /\ cli.pc = "idle"
    /\ pc[1] = "idle"
    /\ \E v \in V :
          cli' = [CliIdle EXCEPT !.pc = "parse", !.argv = Some(v),
                                 !.model = v.model, !.method = v.method, !.gpu = v.gpu,
                                 !.dataset = v.dataset, !.seq_len = v.seq_len]
    /\ UNCHANGED <<planVars, states, last>>

\* cli.py:65-80  the positional spec is parsed and fills what the flags left
CliParse ==
    /\ cli.pc = "parse"
    /\ LET v == Val(cli.argv) IN
       IF IsNone(v.spec)
       THEN cli' = [cli EXCEPT !.pc = "validate"]
       ELSE LET parsed == parse_spec(Val(v.spec)) IN
            IF ParseFailed(parsed)
            THEN cli' = ExitWithError(cli, <<"Could not parse", Val(v.spec)>>)
            ELSE LET p == Val(parsed) IN
                 cli' = [cli EXCEPT !.pc = "validate",
                                    !.parsed = parsed,
                                    !.model = Or(@, Some(p.model_id)),
                                    !.method = Or(@, Some(p.method)),
                                    !.gpu = Or(@, Some(p.gpu)),
                                    !.dataset = Or(@, p.dataset_path),
                                    !.seq_len = SeqLenMerge(@, p.seq_len)]
    /\ UNCHANGED <<planVars, states, last>>

\* cli.py:83-96  the required fields
CliValidate ==
    /\ cli.pc = "validate"
    /\ IF Missing(cli.model, cli.method, cli.gpu)
       THEN cli' = ExitWithError(cli, <<"Missing required options",
                                        MissingOptions(cli.model, cli.method, cli.gpu)>>)
       ELSE cli' = [cli EXCEPT !.pc = "call"]
    /\ UNCHANGED <<planVars, states, last>>

\* cli.py:100-109  api_plan(...) is entered
CliCallApi ==
    /\ cli.pc = "call"
    /\ LET a == ApiArgs(cli, Val(cli.argv)) IN
       /\ Enter(1, a)
       /\ cli' = [cli EXCEPT !.pc = "wait", !.api = Some(a)]
    /\ UNCHANGED <<states, last>>

\* cli.py:110-112  the exception of api_plan is reported
CliCatch ==
    /\ cli.pc = "wait"
    /\ pc[1] = "raised"
    /\ Caught(raised[1])
    /\ cli' = ExitWithError(cli, <<"Error", raised[1]>>)
    /\ UNCHANGED <<planVars, states, last>>

\* cli.py:114  print_report(report); the command ends with code 0
CliPrint ==
    /\ cli.pc = "wait"
    /\ pc[1] = "done"
    /\ cli' = [cli EXCEPT !.pc = "exit", !.exit_code = Some(0), !.printed = report[1]]
    /\ UNCHANGED <<planVars, states, last>>

\* The process is gone; the next command starts from nothing.
CliExit ==
    /\ cli.pc = "exit"
    /\ cli' = CliIdle
    /\ IF pc[1] \in {"done", "raised"} THEN Leave(1) ELSE UNCHANGED planVars
    /\ UNCHANGED <<states, last>>

NextCli ==
    \/ CliInvoke(CliArgv)
    \/ CliParse
    \/ CliValidate
    \/ CliCallApi
    \/ Step(1)
    \/ CliCatch
    \/ CliPrint
    \/ CliExit

SpecCli == Init /\ [][NextCli]_vars

----------------------------------------------------------------------------
(* The state of the aegis workflow  -- aegis/models/state.py *)

\* learning_rate, a float, as m * 2^e micro-units with m odd (or 0): halving
\* a float is exact, and so is halving this.
LR(m, e) == [m |-> m, e |-> e]

\* state.py:6-19
TrainingSpec(method, model_name, dataset_path, num_epochs, micro_batch_size, learning_rate, seq_len, target_gpu, streaming, max_steps, trust_remote_code) ==
    [method |-> method, model_name |-> model_name, dataset_path |-> dataset_path,
     num_epochs |-> num_epochs, micro_batch_size |-> micro_batch_size,
     gradient_accumulation_steps |-> 1, learning_rate |-> learning_rate,
     seq_len |-> seq_len, target_gpu |-> target_gpu, streaming |-> streaming,
     max_steps |-> max_steps, trust_remote_code |-> trust_remote_code]

\* state.py:22-26, money in units of 0.0001 USD
BudgetPolicy(max_budget_usd, soft_threshold_usd, allow_auto_approve) ==
    [max_budget_usd |-> max_budget_usd, soft_threshold_usd |-> soft_threshold_usd,
     allow_auto_approve |-> allow_auto_approve]

DefaultBudgetPolicy == BudgetPolicy(50000, 20000, TRUE)

\* state.py:29-34
CostEstimate(estimated_cost_usd, estimated_vram_gb, estimated_duration_min, cost_breakdown) ==
    [estimated_cost_usd |-> estimated_cost_usd, estimated_vram_gb |-> estimated_vram_gb,
     estimated_duration_min |-> estimated_duration_min,
     cost_breakdown |-> cost_breakdown]

\* state.py:37-43; the timestamp is left out
RunEvent(phase, status, message, data) ==
    [phase |-> phase, status |-> status, message |-> message, data |-> data]

\* state.py:46-59  AegisState() with its defaults
AegisState ==
    [user_input |-> None, spec |-> None, budget_policy |-> DefaultBudgetPolicy,
     cost_estimate |-> None, events |-> <<>>, retry_count |-> 0, max_retries |-> 3,
     generated_code |-> None, execution_result |-> None, eval_result |-> None,
     human_decision |-> None, final_report |-> None]

\* dict.get(key, default) on a dict kept as a record
Get(d, key, default) == IF key \in DOMAIN d THEN d[key] ELSE default

\* state.model_copy(update={"events": state.events + [event]})
WithEvent(state, event) == [state EXCEPT !.events = Append(@, event)]

\* The last element of a list; the latest of the states of a run.
Last(seq) == seq[Len(seq)]

\* What a node call comes to: the state it returns, or the exception it raises.
Returns(state) == [raised |-> FALSE, state |-> state, error |-> NoError]

Raises(error) == [raised |-> TRUE, state |-> AegisState, error |-> error]

\* The except clause is left out: the exception leaves the node.
CatchNothing(r, state, phase, what) ==
    IF r.ok THEN Returns(state) ELSE Raises(r.error)

\* except Exception as e: the node logs a "failed" event of its phase
\* (profiler.py:50-56, generator.py:39-44, evaluator.py:59-65, intent.py:54-60).
CatchAll(r, state, phase, what) ==
    Returns(WithEvent(state, RunEvent(phase, "failed", <<what, r.error>>, None)))

----------------------------------------------------------------------------
(* budget_gate_node  -- aegis/nodes/gate.py *)

\* The hard limit is not consulted.
AutoApproveSoftOnly(state) ==
    IF IsNone(state.cost_estimate) THEN FALSE
    ELSE Val(state.cost_estimate).estimated_cost_usd
            <= state.budget_policy.soft_threshold_usd

\* gate.py:4-24
check_auto_approve(state) ==
    IF IsNone(state.cost_estimate) THEN FALSE
    ELSE IF Val(state.cost_estimate).estimated_cost_usd
               > state.budget_policy.max_budget_usd THEN FALSE
    ELSE IF Val(state.cost_estimate).estimated_cost_usd
               <= state.budget_policy.soft_threshold_usd THEN TRUE
    ELSE FALSE

\* gate.py:51-68  status, decision and message of the three outcomes
GateOutcome(state, auto_approve) ==
    LET cost == Val(state.cost_estimate).estimated_cost_usd IN
    IF cost > state.budget_policy.max_budget_usd
    THEN [status |-> "failed", decision |-> Some("cancel"),
          message |-> <<"Cost $", cost, " exceeds maximum $",
                        state.budget_policy.max_budget_usd>>]
    ELSE IF auto_approve
    THEN [status |-> "completed", decision |-> Some("approve"),
          message |-> <<"Cost $", cost, " auto-approved">>]
    ELSE [status |-> "interrupted", decision |-> None,
          message |-> <<"Cost $", cost, " requires human approval">>]

\* gate.py:27-85
budget_gate_node(state) ==
    IF IsNone(state.cost_estimate)
    THEN Returns(WithEvent(state,
             RunEvent("budget_gate", "failed",
                      <<"Cannot evaluate budget: no cost estimate available">>, None)))
    ELSE LET auto_approve == check_auto_approve(state)
             o == GateOutcome(state, auto_approve)
             event == RunEvent("budget_gate", o.status, o.message,
                         Some([auto_approve |-> auto_approve,
                               cost_usd |-> Val(state.cost_estimate).estimated_cost_usd,
                               soft_threshold |-> state.budget_policy.soft_threshold_usd,
                               max_budget |-> state.budget_policy.max_budget_usd]))
             logged == WithEvent(state, event)
         IN  Returns(IF IsSome(o.decision)
                     THEN [logged EXCEPT !.human_decision = o.decision]
                     ELSE logged)

----------------------------------------------------------------------------
(* remediate_spec, remediate_spec_node  -- aegis/nodes/remediate.py *)

\* The error messages a caller passes, and which of the four keys each
\* contains once lower-cased (remediate.py:6, 9, 22).
ErrorMessages ==
    {"CUDA out of memory", "CUDA error: device-side assert triggered",
     "Loss became NaN", "loss spike detected at step 40",
     "CUDA error: NaN in gradients", "Connection timed out"}

KeysIn(error_message) ==
    CASE error_message = "CUDA out of memory" -> {"out of memory", "cuda"}
      [] error_message = "CUDA error: device-side assert triggered" -> {"cuda"}
      [] error_message = "Loss became NaN" -> {"nan"}
      [] error_message = "loss spike detected at step 40" -> {"loss spike"}
      [] error_message = "CUDA error: NaN in gradients" -> {"cuda", "nan"}
      [] OTHER -> {}

\* The floor at 1 is left out.
HalveBatchNoFloor(micro_batch_size) == micro_batch_size \div 2

\* remediate.py:10, 26  max(1, spec.micro_batch_size // 2)
HalveBatch(micro_batch_size) == Max2(1, micro_batch_size \div 2)

\* The learning rate is doubled.
DoubleRate(learning_rate) ==
    IF learning_rate.m = 0 THEN learning_rate
    ELSE LR(learning_rate.m, learning_rate.e + 1)

\* remediate.py:23  spec.learning_rate / 2
HalveRate(learning_rate) ==
    IF learning_rate.m = 0 THEN learning_rate
    ELSE LR(learning_rate.m, learning_rate.e - 1)

\* The batch size is halved down to 1 and the method is never changed.
RemediateBatchOnly(spec, error_message) ==
    [spec EXCEPT !.micro_batch_size = HalveBatch(spec.micro_batch_size)]

\* remediate.py:4-27
remediate_spec(spec, error_message) ==
    LET keys == KeysIn(error_message)
        oom == "out of memory" \in keys \/ "cuda" \in keys
    IN
    IF oom /\ HalveBatch(spec.micro_batch_size) < spec.micro_batch_size
    THEN [spec EXCEPT !.micro_batch_size = HalveBatch(spec.micro_batch_size)]
    ELSE IF spec.micro_batch_size = 1 /\ spec.method = "full_finetune"
    THEN [spec EXCEPT !.method = "lora"]
    ELSE IF spec.micro_batch_size = 1 /\ spec.method = "lora"
    THEN [spec EXCEPT !.method = "qlora"]
    ELSE IF "nan" \in keys \/ "loss spike" \in keys
    THEN [spec EXCEPT !.learning_rate = HalveRate(spec.learning_rate)]
    ELSE [spec EXCEPT !.micro_batch_size = HalveBatch(spec.micro_batch_size)]

\* Only a change of the batch size is reported.
ChangesBatchOnly(old, new) ==
    IF new.micro_batch_size # old.micro_batch_size
    THEN << <<"batch_size: ", old.micro_batch_size, " -> ", new.micro_batch_size>> >>
    ELSE <<>>

\* remediate.py:42-50
Changes(old, new) ==
    (IF new.micro_batch_size # old.micro_batch_size
     THEN << <<"batch_size: ", old.micro_batch_size, " -> ", new.micro_batch_size>> >>
     ELSE <<>>)
    \o (IF new.method # old.method
        THEN << <<"method: ", old.method, " -> ", new.method>> >> ELSE <<>>)
    \o (IF new.learning_rate # old.learning_rate
        THEN << <<"lr: ", old.learning_rate, " -> ", new.learning_rate>> >> ELSE <<>>)

\* The retry is counted before the spec is looked at.
RemediateCountsFirst(state, error_message) ==
    LET counted == [state EXCEPT !.retry_count = @ + 1] IN
    IF IsNone(state.spec)
    THEN Returns(WithEvent(counted,
             RunEvent("remediate_spec", "failed",
                      <<"Cannot remediate: no training spec">>, None)))
    ELSE LET new_spec == remediate_spec(Val(state.spec), error_message)
             changes == Changes(Val(state.spec), new_spec)
             change_desc == IF changes # <<>> THEN changes ELSE << <<"no changes">> >>
             event == RunEvent("remediate_spec", "completed",
                         <<"Applied remediation: ", change_desc>>,
                         Some([error |-> error_message, changes |-> changes,
                               new_spec |-> new_spec]))
         IN  Returns([counted EXCEPT !.spec = Some(new_spec),
                                     !.events = Append(@, event)])

\* remediate.py:30-70
remediate_spec_node(state, error_message) ==
    IF IsNone(state.spec)
    THEN Returns(WithEvent(state,
             RunEvent("remediate_spec", "failed",
                      <<"Cannot remediate: no training spec">>, None)))
    ELSE LET new_spec == remediate_spec(Val(state.spec), error_message)
             changes == Changes(Val(state.spec), new_spec)
             change_desc == IF changes # <<>> THEN changes ELSE << <<"no changes">> >>
             event == RunEvent("remediate_spec", "completed",
                         <<"Applied remediation: ", change_desc>>,
                         Some([error |-> error_message, changes |-> changes,
                               new_spec |-> new_spec]))
         IN  Returns([state EXCEPT !.spec = Some(new_spec),
                                   !.events = Append(@, event),
                                   !.retry_count = @ + 1])

----------------------------------------------------------------------------
(* run_evals, run_evals_node  -- aegis/nodes/evaluator.py *)

\* evaluator.py:25-27  the canary test is a stub
_run_canary_test(model_path) == TRUE

\* evaluator.py:4-22; losses in thousandths; train_loss missing is +infinity
run_evals(execution_result) ==
    LET metrics == Get(execution_result, "metrics", <<>>)
        has_train == "train_loss" \in DOMAIN metrics
        has_eval == "eval_loss" \in DOMAIN metrics
        convergence ==
            IF ~has_train THEN << <<"Loss did not converge: ", None, " > 2.0">> >>
            ELSE IF metrics.train_loss > 2000
            THEN << <<"Loss did not converge: ", Some(metrics.train_loss), " > 2.0">> >>
            ELSE <<>>
        gap == metrics.eval_loss - metrics.train_loss
        overfit == IF has_eval /\ gap > 1000
                   THEN << <<"Severe overfitting: ", gap, " gap">> >> ELSE <<>>
        canary == IF ~_run_canary_test(Get(execution_result, "model_path", None))
                  THEN << <<"Canary safety test failed">> >> ELSE <<>>
        failures == convergence \o overfit \o canary
    IN
    IF has_eval /\ ~has_train
    THEN [ok |-> FALSE, value |-> None, error |-> Error("KeyError", "run_evals", "train_loss")]
    ELSE [ok |-> TRUE, error |-> NoError,
          value |-> Some([passed |-> failures = <<>>, metrics |-> metrics,
                          failures |-> failures])]

\* evaluator.py:30-65
run_evals_node(state) ==
    IF IsNone(state.execution_result)
    THEN Returns(WithEvent(state,
             RunEvent("run_evals", "failed",
                      <<"Cannot run evals: no execution result">>, None)))
    ELSE LET r == run_evals(Val(state.execution_result)) IN
         IF r.ok
         THEN LET eval_result == Val(r.value)
                  event == RunEvent("run_evals",
                              IF eval_result.passed THEN "completed" ELSE "failed",
                              <<"Evaluation ",
                                IF eval_result.passed THEN "passed" ELSE "failed",
                                Len(eval_result.failures)>>,
                              r.value)
              IN  Returns([state EXCEPT !.eval_result = r.value,
                                        !.events = Append(@, event)])
         ELSE CatchAll(r, state, "run_evals", "Eval failed: ")

----------------------------------------------------------------------------
(* estimate_training_cost  -- aegis/profilers/cost.py *)
(* Parameter counts in millions, seconds and money as exact fractions       *)
(* rounded at the end, VRAM in MB.                                          *)

\* round(num / den) for num >= 0, den > 0
Round(num, den) == (2 * num + den) \div (2 * den)

\* cost.py:5-9  USD per second, in millionths
GPU_PRICING(gpu) == CASE gpu = "a10g" -> 306
                      [] gpu = "t4" -> 126
                      [] gpu = "a100" -> 793

GpuPriced == {"a10g", "t4", "a100"}

\* The model names of the workflow
Tinyllama == "tinyllama/tinyllama-272m"

Llama2_7b == "meta-llama/Llama-2-7b-hf"

Llama3_8b == "meta-llama/Meta-Llama-3-8B"

EveMoE == "anthonym21/Eve-2-MoE-272M"

CustomModel == "acme/custom-model"

\* cost.py:27-50  known sizes, then the "7B" and "272M" patterns, then 1.0B
_estimate_params_b(model_name) ==
    CASE model_name = Tinyllama -> 272
      [] model_name = Llama2_7b -> 7000
      [] model_name = Llama3_8b -> 8000
      [] model_name = EveMoE -> 272
      [] OTHER -> 1000

\* cost.py:53-56
_is_moe(model_name) == model_name = EveMoE

\* cost.py:59-78
_estimate_model_vram_gb(params, method, is_moe) ==
    LET base == IF method = "qlora" THEN params \div 2 ELSE params * 2 IN
    IF is_moe THEN (base * 13) \div 10 ELSE base

\* cost.py:81-152
estimate_training_cost(spec, estimated_params_b, is_moe_hint) ==
    LET params == IF estimated_params_b > 0 THEN estimated_params_b
                  ELSE _estimate_params_b(spec.model_name)
        is_moe == is_moe_hint \/ _is_moe(spec.model_name)
        effective_batch_size == spec.micro_batch_size * spec.gradient_accumulation_steps
        \* seconds = 12000 * epochs / samples_per_sec, as secNum / secDen
        factorFloor == params > 30000
        secNum == (IF factorFloor THEN 1200 * spec.num_epochs
                   ELSE spec.num_epochs * params) * (IF is_moe THEN 20 ELSE 1)
        secDen == (IF factorFloor THEN 1 ELSE 25) * (IF is_moe THEN 13 ELSE 1)
        gpu_price == IF spec.target_gpu \in GpuPriced THEN GPU_PRICING(spec.target_gpu)
                     ELSE GPU_PRICING("a10g")
        base_model_vram == _estimate_model_vram_gb(params, spec.method, is_moe)
        optimizer_vram == IF spec.method = "qlora" THEN 500
                          ELSE IF spec.method = "lora" THEN base_model_vram \div 10
                          ELSE base_model_vram * 2
        activation_vram == Max2((spec.micro_batch_size * spec.seq_len * params) \div 2000,
                                500)
        total_vram == base_model_vram + optimizer_vram + activation_vram
    IN
    IF effective_batch_size = 0
    THEN [ok |-> FALSE, value |-> None,
          error |-> Error("ZeroDivisionError", "estimate_training_cost", "0")]
    ELSE [ok |-> TRUE, error |-> NoError,
          value |-> Some(CostEstimate(
              Round(secNum * gpu_price, secDen * 100),
              Round(total_vram, 100),
              Round(secNum * 10, secDen * 60),
              [gpu |-> spec.target_gpu,
               effective_batch_size |-> effective_batch_size,
               total_steps |-> (10000 \div effective_batch_size) * spec.num_epochs,
               model_params_b |-> params,
               is_moe |-> is_moe]))]

----------------------------------------------------------------------------
(* estimate_cost_node  -- aegis/nodes/profiler.py *)

\* profiler.py:29-33  the first parse_intent event that carries data
RECURSIVE FirstIntentData(_)
FirstIntentData(events) ==
    IF events = <<>> THEN None
    ELSE IF Head(events).phase = "parse_intent" /\ IsSome(Head(events).data)
    THEN Head(events).data
    ELSE FirstIntentData(Tail(events))

\* profiler.py:5-56
estimate_cost_node(state) ==
    IF IsNone(state.spec)
    THEN Returns(WithEvent(state,
             RunEvent("estimate_cost", "failed",
                      <<"Cannot estimate cost: no training spec provided">>, None)))
    ELSE LET found == FirstIntentData(state.events)
             estimated_params_b ==
                 IF IsSome(found) THEN Get(Val(found), "estimated_params_b", 0) ELSE 0
             is_moe == IF IsSome(found) THEN Get(Val(found), "is_moe", FALSE) ELSE FALSE
             r == estimate_training_cost(Val(state.spec), estimated_params_b, is_moe)
         IN
         IF r.ok
         THEN LET cost_estimate == Val(r.value)
                  event == RunEvent("estimate_cost", "completed",
                              <<"Estimated $", cost_estimate.estimated_cost_usd,
                                cost_estimate.estimated_vram_gb>>,
                              r.value)
              IN  Returns([state EXCEPT !.cost_estimate = r.value,
                                        !.events = Append(@, event)])
         ELSE CatchAll(r, state, "estimate_cost", "Cost estimation failed: ")

----------------------------------------------------------------------------
(* generate_code_node  -- aegis/nodes/generator.py *)

\* What TemplateCodeGenerator().generate(spec) comes to: the rendered script,
\* or the exception of a template that is missing or does not render.
GeneratorOutcomes == {"rendered", "TemplateNotFound"}

generate(spec, outcome) ==
    IF outcome = "rendered"
    THEN [ok |-> TRUE, error |-> NoError, value |-> Some([script_for |-> spec])]
    ELSE [ok |-> FALSE, value |-> None,
          error |-> Error(outcome, "TemplateCodeGenerator", "hf_training.py.j2")]

\* generator.py:5-44
generate_code_node(state, outcome) ==
    IF IsNone(state.spec)
    THEN Returns(WithEvent(state,
             RunEvent("generate_code", "failed",
                      <<"Cannot generate code: no training spec provided">>, None)))
    ELSE LET r == generate(Val(state.spec), outcome) IN
         IF r.ok
         THEN LET event == RunEvent("generate_code", "completed",
                              <<"Generated bytes of training code">>,
                              Some([method |-> Val(state.spec).method]))
              IN  Returns([state EXCEPT !.generated_code = r.value,
                                        !.events = Append(@, event)])
         ELSE CatchAll(r, state, "generate_code", "Code generation failed: ")

----------------------------------------------------------------------------
(* parse_intent_node  -- aegis/nodes/intent.py *)

\* A digit string longer than int() converts: 5000 nines.
LongNumber == "99999...9 (5000 digits)"

\* A user input is kept as its words; every key looked for is one word long.
UserInputs ==
    { <<"finetune", "tinyllama">>,
      <<"full", "finetune", "llama-3-8b", "for", "30", "epochs">>,
      <<"full", "finetune", "llama-3-8b", "for", "100", "epochs">>,
      <<"QLoRA", "llama-7b", "batch", "size", "0">>,
      <<"lora", "tinyllama", "batch", "size", LongNumber>> }

\* key in word.lower(), on the words of UserInputs
WordHas(word, key) ==
    \/ Lower(word) = key
    \/ key = "lora" /\ Lower(word) \in {"qlora", "q-lora"}
    \/ key = "epoch" /\ Lower(word) = "epochs"

\* key in user_input.lower()
InputHas(user_input, key) == \E i \in 1..Len(user_input) : WordHas(user_input[i], key)

\* \d+ on the words of UserInputs, with int() of each
NumberWords == {"0", "30", "100", LongNumber}

\* int(s) raises ValueError when s has more than 4300 digits, the default
\* limit of CPython on the conversion of a string to an integer.
IntRaises(w) == w = LongNumber

number(w) == CASE w = "0" -> 0
               [] w = "30" -> 30
               [] w = "100" -> 100

\* intent.py:10-15
ExtractMethod(user_input) ==
    IF InputHas(user_input, "full") /\ InputHas(user_input, "finetune") THEN "full_finetune"
    ELSE IF InputHas(user_input, "qlora") \/ InputHas(user_input, "q-lora") THEN "qlora"
    ELSE "lora"

\* intent.py:18-27  the first key of model_map found in the input
ExtractModel(user_input) ==
    IF InputHas(user_input, "tinyllama") THEN Tinyllama
    ELSE IF InputHas(user_input, "llama-7b") THEN Llama2_7b
    ELSE IF InputHas(user_input, "llama-3-8b") THEN Llama3_8b
    ELSE Tinyllama

\* intent.py:30  batch\s*(?:size)?\s*(\d+), group 1 of the leftmost match
BatchMatch(user_input) ==
    LET at == {i \in 1..Len(user_input) :
                  /\ WordHas(user_input[i], "batch")
                  /\ \/ i + 1 <= Len(user_input) /\ user_input[i + 1] \in NumberWords
                     \/ /\ i + 2 <= Len(user_input)
                        /\ Lower(user_input[i + 1]) = "size"
                        /\ user_input[i + 2] \in NumberWords}
    IN  IF at = {} THEN None
        ELSE LET i == CHOOSE j \in at : \A k \in at : j <= k IN
             IF user_input[i + 1] \in NumberWords THEN Some(user_input[i + 1])
             ELSE Some(user_input[i + 2])

\* intent.py:31  int(batch_match.group(1)) if batch_match else 4
ExtractBatch(user_input) ==
    IF IsNone(BatchMatch(user_input)) THEN 4 ELSE number(Val(BatchMatch(user_input)))

\* intent.py:34  (\d+)\s*epoch, group 1 of the leftmost match
EpochMatch(user_input) ==
    LET at == {i \in 1..(Len(user_input) - 1) :
                  user_input[i] \in NumberWords /\ WordHas(user_input[i + 1], "epoch")}
    IN  IF at = {} THEN None
        ELSE Some(user_input[CHOOSE j \in at : \A k \in at : j <= k])

\* intent.py:35  int(epoch_match.group(1)) if epoch_match else 3
ExtractEpochs(user_input) ==
    IF IsNone(EpochMatch(user_input)) THEN 3 ELSE number(Val(EpochMatch(user_input)))

\* intent.py:5-60; TrainingSpec(...) accepts every integer extracted here, so
\* what the except clause catches is the ValueError of int().
parse_intent_node(state, user_input) ==
    LET converted == BatchMatch(user_input) \o EpochMatch(user_input) IN
    IF \E i \in 1..Len(converted) : IntRaises(converted[i])
    THEN CatchAll([ok |-> FALSE, value |-> None,
                   error |-> Error("ValueError", "int",
                                   "Exceeds the limit (4300 digits) for integer string conversion")],
                  state, "parse_intent", "Failed to parse intent: ")
    ELSE
    LET method == ExtractMethod(user_input)
        model_name == ExtractModel(user_input)
        spec == TrainingSpec(method, model_name, "./data/sample.jsonl",
                             ExtractEpochs(user_input), ExtractBatch(user_input),
                             LR(25, 1), 512, "a10g", FALSE, 0, FALSE)
        event == RunEvent("parse_intent", "completed",
                    <<"Extracted training spec for ", method, model_name>>,
                    Some([parsed_spec |-> spec]))
    IN  Returns([state EXCEPT !.spec = Some(spec), !.events = Append(@, event)])

----------------------------------------------------------------------------
(* parse_intent_llm  -- aegis/nodes/intent_llm.py *)

\* intent_llm.py:20-42  a ParsedIntent the LLM may return, past validation
ParsedIntent(method, model_name, micro_batch_size, target_gpu, estimated_params_b, is_moe) ==
    [method |-> method, model_name |-> model_name,
     dataset_path |-> "./data/sample.jsonl", num_epochs |-> 3,
     micro_batch_size |-> micro_batch_size, learning_rate |-> LR(25, 3),
     seq_len |-> 512, target_gpu |-> target_gpu,
     estimated_params_b |-> estimated_params_b, is_moe |-> is_moe,
     streaming |-> FALSE, max_steps |-> 0, trust_remote_code |-> is_moe]

\* What the environment does to one call: no API key, an answer of the LLM,
\* or an exception of the LLM call.
LlmOutcomes ==
    { [kind |-> "no_key"],
      [kind |-> "raises"],
      [kind |-> "answer",
       parsed |-> ParsedIntent("qlora", EveMoE, 2, "a100", 272, TRUE)],
      [kind |-> "answer",
       parsed |-> ParsedIntent("lora", CustomModel, 4, "a10g", 13000, FALSE)] }

\* intent_llm.py:152-154  [event] + list(fallback_state.events)
PrependFallback(event, events) == <<event>> \o events

\* intent_llm.py:96-155
parse_intent_llm(state, user_input, outcome) ==
    IF outcome.kind = "no_key"
    THEN parse_intent_node(state, user_input)
    ELSE IF outcome.kind = "answer"
    THEN LET parsed == outcome.parsed
             spec == TrainingSpec(parsed.method, parsed.model_name, parsed.dataset_path,
                                  parsed.num_epochs, parsed.micro_batch_size,
                                  parsed.learning_rate, parsed.seq_len, parsed.target_gpu,
                                  parsed.streaming, parsed.max_steps,
                                  parsed.trust_remote_code)
             event == RunEvent("parse_intent", "completed",
                         <<"LLM extracted spec for ", spec.method, spec.model_name>>,
                         Some([parsed_spec |-> spec, parser |-> "llm",
                               estimated_params_b |-> parsed.estimated_params_b,
                               is_moe |-> parsed.is_moe]))
         IN  Returns([state EXCEPT !.spec = Some(spec), !.events = Append(@, event)])
    ELSE LET e == Error("Exception", "structured_llm.invoke", "LLM call failed")
             event == RunEvent("parse_intent", "completed",
                         <<"LLM parse failed, falling back to rule-based parser", e>>,
                         Some([parser |-> "rule_fallback", error |-> e]))
             fallback == parse_intent_node(state, user_input)
         IN  IF fallback.raised THEN fallback
             ELSE Returns([fallback.state EXCEPT
                              !.events = PrependFallback(event, fallback.state.events)])

----------------------------------------------------------------------------
(* A caller of the node operations *)

\* The caller holds at most MaxHeld states, the one it started from included.
MaxHeld == 3

SampleSpec(method, micro_batch_size, learning_rate) ==
    TrainingSpec(method, Tinyllama, "./data/sample.jsonl", 3, micro_batch_size,
                 learning_rate, 512, "a10g", FALSE, 0, FALSE)

SpecPresets ==
    {SampleSpec(method, mbs, lr) :
        method \in {"full_finetune", "lora", "qlora"},
        mbs \in {1, 2, 5},
        lr \in {LR(25, 1), LR(0, 0)}}

Policies ==
    {DefaultBudgetPolicy, BudgetPolicy(50000, 20000, FALSE), BudgetPolicy(10000, 20000, TRUE)}

CostPresets ==
    {CostEstimate(cost, 50, 50, [gpu |-> "a10g"]) :
        cost \in {100, 15000, 20000, 20001, 50000, 50001}}

ExecutionResults ==
    { [metrics |-> [train_loss |-> 1500, eval_loss |-> 1800], model_path |-> "/tmp/model"],
      [metrics |-> [train_loss |-> 2500], model_path |-> "/tmp/model"],
      [metrics |-> [train_loss |-> 500, eval_loss |-> 2000], model_path |-> "/tmp/model"],
      [metrics |-> [train_loss |-> 2000, eval_loss |-> 3000], model_path |-> "/tmp/model"],
      [metrics |-> [train_loss |-> 2500, eval_loss |-> 4000], model_path |-> "/tmp/model"],
      [metrics |-> [eval_loss |-> 1000], model_path |-> "/tmp/model"],
      [returncode |-> 0] }

\* An event logged before the caller's first node call.
Earlier == RunEvent("parse_intent", "started", <<"Parsing user intent">>, None)

\* The states a caller may start from: AegisState(...) with some fields given.
InitialStates ==
    {AegisState, [AegisState EXCEPT !.events = <<Earlier>>]}
    \cup {[AegisState EXCEPT !.spec = Some(s), !.events = <<Earlier>>] : s \in SpecPresets}
    \cup {[AegisState EXCEPT !.budget_policy = p, !.cost_estimate = Some(ce),
                             !.human_decision = d] :
             p \in Policies, ce \in CostPresets,
             d \in {None, Some("optimize"), Some("approve")}}
    \cup {[AegisState EXCEPT !.execution_result = Some(x)] : x \in ExecutionResults}

NodesInit ==
    /\ PlanInit
    /\ cli = CliIdle
    /\ states \in {<<s>> : s \in InitialStates}
    /\ last = NoCall

\* The input object is updated in place and handed back.
ReturnedInPlace(held, i, state) == Append([held EXCEPT ![i] = state], state)

\* state.model_copy(update=...): the node hands back a new object and the
\* caller keeps it next to the ones it has.
Returned(held, i, state) == Append(held, state)

\* A node is called on the i-th state held and comes to r.
Invoke(i, node, arg, r) ==
    /\ i <= Len(states)
    /\ Len(states) < MaxHeld
    /\ states' = IF r.raised THEN states ELSE Returned(states, i, r.state)
    /\ last' = [node |-> node, inp |-> i,
                out |-> IF r.raised THEN 0 ELSE Len(states) + 1,
                arg |-> arg, raised |-> r.raised, before |-> states[i]]
    /\ UNCHANGED <<planVars, cli>>

ParseIntent(i) ==
    \E u \in UserInputs :
        Invoke(i, "parse_intent_node", Some(u), parse_intent_node(states[i], u))

ParseIntentLlm(i) ==
    \E u \in UserInputs, o \in LlmOutcomes :
        Invoke(i, "parse_intent_llm", Some([user_input |-> u, llm |-> o.kind]),
               parse_intent_llm(states[i], u, o))

EstimateCost(i) ==
    Invoke(i, "estimate_cost_node", None, estimate_cost_node(states[i]))

BudgetGate(i) ==
    Invoke(i, "budget_gate_node", None, budget_gate_node(states[i]))

GenerateCode(i) ==
    \E g \in GeneratorOutcomes :
        Invoke(i, "generate_code_node", Some(g), generate_code_node(states[i], g))

RunEvals(i) ==
    Invoke(i, "run_evals_node", None, run_evals_node(states[i]))

Remediate(i) ==
    \E e \in ErrorMessages :
        Invoke(i, "remediate_spec_node", Some(e), remediate_spec_node(states[i], e))

NextNodes ==
    \E i \in 1..MaxHeld :
        \/ ParseIntent(i)
        \/ ParseIntentLlm(i)
        \/ EstimateCost(i)
        \/ BudgetGate(i)
        \/ GenerateCode(i)
        \/ RunEvals(i)
        \/ Remediate(i)

SpecNodes == NodesInit /\ [][NextNodes]_vars

----------------------------------------------------------------------------
(* A pipeline: each node is called on the state the one before returned *)

\* The pipeline makes at most MaxPipeline - 1 node calls.
MaxPipeline == 5

\* The node is called on the latest state and the state it returns is the
\* latest from then on; the earlier ones are kept as the history of the run.
Carry(bound, node, arg, r) ==
    /\ Len(states) < bound
    /\ states' = IF r.raised THEN states ELSE Returned(states, Len(states), r.state)
    /\ last' = [node |-> node, inp |-> Len(states),
                out |-> IF r.raised THEN 0 ELSE Len(states) + 1,
                arg |-> arg, raised |-> r.raised, before |-> Last(states)]
    /\ UNCHANGED <<planVars, cli>>

\* A run starts with retry_count = 0 and a spec the intent parser has set.
PipelineStates ==
    {[AegisState EXCEPT !.spec = Some(SampleSpec(method, 4, LR(25, 1)))] :
        method \in {"full_finetune", "lora"}}

PipelineInit ==
    /\ PlanInit
    /\ cli = CliIdle
    /\ states \in {<<s>> : s \in PipelineStates}
    /\ last = NoCall

PipelineEstimate ==
    Carry(MaxPipeline, "estimate_cost_node", None, estimate_cost_node(Last(states)))

PipelineGate ==
    Carry(MaxPipeline, "budget_gate_node", None, budget_gate_node(Last(states)))

PipelineRemediate ==
    \E e \in {"CUDA out of memory", "Loss became NaN"} :
        Carry(MaxPipeline, "remediate_spec_node", Some(e),
              remediate_spec_node(Last(states), e))

\* The user states the intent again.
PipelineParse ==
    \E o \in LlmOutcomes :
        Carry(MaxPipeline, "parse_intent_llm",
              Some([user_input |-> <<"finetune", "tinyllama">>, llm |-> o.kind]),
              parse_intent_llm(Last(states), <<"finetune", "tinyllama">>, o))

NextPipeline == PipelineEstimate \/ PipelineGate \/ PipelineRemediate \/ PipelineParse

SpecPipeline == PipelineInit /\ [][NextPipeline]_vars

----------------------------------------------------------------------------
(* Retries after out-of-memory errors only *)

\* The largest micro_batch_size a run starts with, and the number of retries.
MaxBatch == 8

MaxOomRetries == 6

OomInit ==
    /\ PlanInit
    /\ cli = CliIdle
    /\ states \in {<<[AegisState EXCEPT !.spec = Some(SampleSpec(method, mbs, LR(25, 1)))]>> :
                      method \in {"full_finetune", "lora", "qlora"}, mbs \in 1..MaxBatch}
    /\ last = NoCall

\* The run failed with an out-of-memory error and the spec is remediated.
OomRetry ==
    Carry(MaxOomRetries + 1, "remediate_spec_node", Some("CUDA out of memory"),
          remediate_spec_node(Last(states), "CUDA out of memory"))

NextOom == OomRetry

\* As long as the run fails it is retried.
SpecOom == OomInit /\ [][NextOom]_vars /\ WF_vars(OomRetry)

----------------------------------------------------------------------------
(* Vocabulary of the properties *)

Contains(seq, x) == \E i \in 1..Len(seq) : seq[i] = x

Count(seq, x) == Cardinality({i \in 1..Len(seq) : seq[i] = x})

Entered(c) == pc[c] # "idle"

KnownMethod(a) == Lower(a.method) \in TrainingMethodValues

KnownGpu(a) == NormalizeGpu(a.gpu) \in KnownGpus

ModelResolves(a) == resolve_model(a.model_id).ok

DatasetMissing(a) == IsSome(a.dataset_path) /\ ~analyze_local(Val(a.dataset_path)).ok

BadSeqLen(a) == IsSome(a.seq_len) /\ Val(a.seq_len) <= 0

\* The call has every input in order.
ValidCall(a) ==
    KnownMethod(a) /\ KnownGpu(a) /\ ModelResolves(a) /\ ~DatasetMissing(a) /\ ~BadSeqLen(a)

\* Positions of plan() after the solver has returned.
AfterSolver == {"trainable", "sanity", "report", "done"}

\* Even batch size 1 with checkpointing does not fit the call's card.
NothingFits(c) ==
    ~Fits(model_profile[c], hardware[c], training_method[c], args[c].lora_rank, 1,
          resolved[c].seq_len, TRUE)

Recommended(c) == Val(report[c]).solver_result.recommended

IsMinimalInfeasible(cfg) ==
    /\ cfg.micro_batch_size = 1
    /\ cfg.gradient_checkpointing
    /\ cfg.reasoning.verdict = "does_not_fit"

----------------------------------------------------------------------------
(* C1 *)

\* C1 as stated: a call with a known method, a known GPU, a resolved model, a
\* readable dataset and a positive seq_len never raises and returns a report,
\* and when no configuration fits the recommended configuration is the minimal
\* one (micro_batch_size 1, checkpointing on) with verdict does_not_fit.
C1_Original ==
    \A c \in CallIds :
        ValidCall(args[c]) =>
            /\ pc[c] # "raised"
            /\ pc[c] = "done" =>
                 /\ IsSome(report[c])
                 /\ NothingFits(c) => IsMinimalInfeasible(Recommended(c))

\* C1, amended: such a call never raises and returns a report whose
\* recommended configuration is present; when no configuration fits, the
\* verdict is does_not_fit, on the minimal configuration if batch_size is
\* absent and on the configuration of the given batch_size otherwise.
C1_InfeasibleIsResult ==
    \A c \in CallIds :
        ValidCall(args[c]) =>
            /\ pc[c] # "raised"
            /\ raised[c] = NoError
            /\ pc[c] = "done" =>
                 /\ IsSome(report[c])
                 /\ Recommended(c).micro_batch_size >= 1
                 /\ NothingFits(c) =>
                      /\ Recommended(c).reasoning.verdict = "does_not_fit"
                      /\ Val(report[c]).solver_result.aggressive = None
                      /\ IsNone(args[c].batch_size) => IsMinimalInfeasible(Recommended(c))
                      /\ IsSome(args[c].batch_size) =>
                            Recommended(c).micro_batch_size = Val(args[c].batch_size)

\* A search that found nothing to fit has returned its report.
C1_Witness ==
    /\ pc[1] = "done"
    /\ args[1].method = "full"
    /\ IsNone(args[1].batch_size)
    /\ NothingFits(1)
    /\ IsMinimalInfeasible(Recommended(1))

----------------------------------------------------------------------------
(* C2 *)

\* The pair the resolver owes a call, from the arguments and the analyzer's answer.
ExpectedSeqLen(a) ==
    IF IsSome(a.seq_len)
    THEN [seq_len |-> Val(a.seq_len), reasoning |-> Reasoning("--seq-len ", Val(a.seq_len), "")]
    ELSE IF IsSome(a.dataset_path)
            /\ IsSome(analyze_local(Val(a.dataset_path)).value.seq_len_stats)
         THEN LET n == Val(analyze_local(Val(a.dataset_path)).value.seq_len_stats).p95
              IN [seq_len |-> n, reasoning |-> Reasoning("dataset p95 (", n, " tokens)")]
         ELSE [seq_len |-> 512, reasoning |-> Reasoning("default (", 512, ")")]

\* C2: the resolved pair is (explicit, "--seq-len N") whenever an explicit value
\* > 0 is given, else (p95, "dataset p95 (N tokens)") whenever the analyzed
\* dataset has statistics, else (512, "default (512)"); the report carries
\* exactly this pair and the number in the reasoning is seq_len_used.
C2_SeqLenPriority ==
    \A c \in CallIds :
        /\ pc[c] \in {"solver", "search"} \cup AfterSolver =>
             /\ resolved[c] = ExpectedSeqLen(args[c])
             /\ IsSome(args[c].seq_len) => Val(args[c].seq_len) > 0
        /\ pc[c] = "done" =>
             /\ Val(report[c]).seq_len_used = ExpectedSeqLen(args[c]).seq_len
             /\ Val(report[c]).seq_len_reasoning = ExpectedSeqLen(args[c]).reasoning
             /\ Val(report[c]).seq_len_reasoning.n = Val(report[c]).seq_len_used

\* An explicit value has won over the statistics of an analyzed dataset.
C2_Witness ==
    /\ pc[1] = "done"
    /\ args[1].seq_len = Some(2 * SeqLenStep)
    /\ IsSome(dataset[1]) /\ IsSome(Val(dataset[1]).seq_len_stats)
    /\ Val(report[1]).seq_len_used = 2 * SeqLenStep
    /\ Val(report[1]).seq_len_reasoning.prefix = "--seq-len "

----------------------------------------------------------------------------
(* C3 *)

\* C3: an unknown method (compared in lower case) makes plan() fail with the
\* enum's ValueError naming the value, an unknown GPU with the catalog's
\* KeyError, a missing dataset file with the analyzer's FileNotFoundError; the
\* failing collaborator is entered once and is the last one entered, the error
\* that leaves plan() is the one it raised, and no report exists.
C3_ErrorsPropagate ==
    \A c \in CallIds :
        LET a == args[c] IN
        /\ (Entered(c) /\ (~KnownMethod(a) \/ ~KnownGpu(a) \/ DatasetMissing(a))) =>
              pc[c] # "done" /\ IsNone(report[c])
        /\ (pc[c] \notin {"idle", "method"} /\ ~KnownMethod(a)) =>
              /\ pc[c] = "raised"
              /\ raised[c] = Error("ValueError", "TrainingMethod", Lower(a.method))
              /\ invoked[c] = <<"TrainingMethod">>
        /\ (pc[c] \notin {"idle", "method", "hardware"} /\ KnownMethod(a) /\ ~KnownGpu(a)) =>
              /\ pc[c] = "raised"
              /\ raised[c] = Error("KeyError", "get_hardware", a.gpu)
              /\ invoked[c] = <<"TrainingMethod", "get_hardware">>
        /\ (pc[c] \notin {"idle", "method", "hardware", "model", "dataset"}
              /\ KnownMethod(a) /\ KnownGpu(a) /\ ModelResolves(a) /\ DatasetMissing(a)) =>
              /\ pc[c] = "raised"
              /\ raised[c] = Error("FileNotFoundError", "analyze_local", Val(a.dataset_path))
              /\ invoked[c] = <<"TrainingMethod", "get_hardware", "resolve_model",
                                "analyze_local">>
        /\ pc[c] = "raised" =>
              /\ raised[c] # NoError
              /\ raised[c].origin = Last(invoked[c])
              /\ Count(invoked[c], Last(invoked[c])) = 1
        /\ pc[c] # "raised" => raised[c] = NoError

\* A missing dataset file has ended an otherwise sound call.
C3_Witness ==
    /\ pc[1] = "raised"
    /\ args[1].method = "QLoRA"
    /\ raised[1].type = "FileNotFoundError"
    /\ IsNone(report[1])

----------------------------------------------------------------------------
(* C4 *)

\* C4: when the method is unknown or the explicit seq_len is not positive, the
\* call never enters the GPU catalog, the model resolver or the dataset
\* analyzer, and what it raises is the invalid-argument error.
C4_InvalidArgumentFirst ==
    \A c \in CallIds :
        (Entered(c) /\ (~KnownMethod(args[c]) \/ BadSeqLen(args[c]))) =>
            /\ ~Contains(invoked[c], "get_hardware")
            /\ ~Contains(invoked[c], "resolve_model")
            /\ ~Contains(invoked[c], "analyze_local")
            /\ pc[c] = "raised" =>
                  /\ raised[c].type = "ValueError"
                  /\ raised[c].origin \in {"TrainingMethod", "_resolve_seq_len"}

----------------------------------------------------------------------------
(* C5 *)

\* C5: with every other input in order, an explicit seq_len <= 0 (0 included)
\* ends the call in _resolve_seq_len's ValueError naming the value: the solver
\* is never entered and no report exists.
C5_NonPositiveSeqLenRejected ==
    \A c \in CallIds :
        LET a == args[c] IN
        (Entered(c) /\ BadSeqLen(a)) =>
            /\ pc[c] \notin {"solver", "search"} \cup AfterSolver
            /\ ~Contains(invoked[c], "solve")
            /\ ~Contains(invoked[c], "estimate_fixed")
            /\ IsNone(report[c])
            /\ (KnownMethod(a) /\ KnownGpu(a) /\ ModelResolves(a) /\ ~DatasetMissing(a)) =>
                  /\ pc[c] \in {"method", "hardware", "model", "dataset", "seq_len", "raised"}
                  /\ pc[c] = "raised" =>
                        /\ raised[c] = Error("ValueError", "_resolve_seq_len", Val(a.seq_len))
                        /\ Last(invoked[c]) = "_resolve_seq_len"

\* seq_len = 0 has been rejected although a dataset with statistics was analyzed.
C5_Witness ==
    /\ pc[1] = "raised"
    /\ args[1].seq_len = Some(0)
    /\ IsSome(dataset[1]) /\ IsSome(Val(dataset[1]).seq_len_stats)
    /\ raised[1] = Error("ValueError", "_resolve_seq_len", 0)

----------------------------------------------------------------------------
(* C6 *)

\* A formatted sanity warning: "[severity] category: message".
IsSanityWarning(w) == Len(w) = 6 /\ w[1] = "["

----------------------------------------------------------------------------
(* C7 *)

\* C7: a call with batch_size enters estimate_fixed once and solve never, and
\* its recommended configuration has exactly that micro_batch_size and no
\* aggressive alternative, fitting or not; a call without batch_size enters
\* solve once and estimate_fixed never; no call enters both, and every call
\* that is past the solver has entered one.
C7_FixedBatchNoSearch ==
    \A c \in CallIds :
        LET fixed == Count(invoked[c], "estimate_fixed")
            searched == Count(invoked[c], "solve")
        IN /\ fixed + searched <= 1
           /\ pc[c] \in AfterSolver => fixed + searched = 1
           /\ (pc[c] \in AfterSolver /\ IsSome(args[c].batch_size)) =>
                 /\ fixed = 1
                 /\ search[c].mbs = 0
                 /\ solver_result[c].recommended.micro_batch_size = Val(args[c].batch_size)
                 /\ solver_result[c].aggressive = None
           /\ (pc[c] \in AfterSolver /\ IsNone(args[c].batch_size)) =>
                 /\ searched = 1
                 /\ solver_result[c].recommended.micro_batch_size = search[c].mbs
           /\ (pc[c] = "done" /\ IsSome(args[c].batch_size)) =>
                 /\ Recommended(c).micro_batch_size = Val(args[c].batch_size)
                 /\ Val(report[c]).solver_result.aggressive = None

\* A fixed batch size that does not fit has been reported as it was given,
\* where the search would have found a smaller one that fits.
C7_Witness ==
    /\ pc[1] = "done"
    /\ args[1].batch_size = Some(64)
    /\ ~NothingFits(1)
    /\ Recommended(1).micro_batch_size = 64
    /\ Recommended(1).reasoning.verdict = "does_not_fit"

----------------------------------------------------------------------------
(* C8 *)

\* C8: in every report the recommended configuration is present; an
\* aggressive one is present only if the recommended verdict is "fits", and
\* its total VRAM is within the total_vram_gb the report states for the card.
C8_AggressiveOnlyWhenFits ==
    \A c \in CallIds :
        pc[c] = "done" =>
            LET r == Val(report[c]) IN
            /\ r.solver_result.recommended # NoConfig
            /\ r.solver_result.recommended.micro_batch_size >= 1
            /\ r.solver_result.recommended.reasoning.verdict \in {"fits", "does_not_fit"}
            /\ IsSome(r.solver_result.aggressive) =>
                  /\ r.solver_result.recommended.reasoning.verdict = "fits"
                  /\ TotalMB(Val(r.solver_result.aggressive).vram_breakdown) <= r.total_vram_gb

\* An aggressive alternative above the usable budget has been offered.
C8_Witness ==
    /\ pc[1] = "done"
    /\ IsSome(Val(report[1]).solver_result.aggressive)
    /\ TotalMB(Val(Val(report[1]).solver_result.aggressive).vram_breakdown)
          > Val(report[1]).usable_vram_gb

----------------------------------------------------------------------------
(* C9 *)

\* The overfitting warnings among the report's warnings, by severity.
OverfitWarnings(c, severity) ==
    LET ws == Val(report[c]).solver_result.warnings IN
    {i \in 1..Len(ws) : IsSanityWarning(ws[i]) /\ ws[i][4] = "overfitting"
                          /\ ws[i][2] = severity}

\* Trainable parameters of the call, in millions, from its arguments.
TrainableOf(a) ==
    get_trainable_params(resolve_model(a.model_id).value, Lower(a.method), a.lora_rank)

RowsOf(a) == analyze_local(Val(a.dataset_path)).value.num_rows

\* C9: with ratio = num_rows / (trainable_params / 1e6), a report on a dataset
\* carries one "[critical] overfitting" warning if ratio < 10, one
\* "[warning] overfitting" warning if 10 <= ratio <= the soft threshold, and
\* no overfitting warning above it; a report without a dataset carries none.
C9_OverfittingByRatio ==
    \A c \in CallIds :
        pc[c] = "done" =>
            LET a == args[c]
                crit == Cardinality(OverfitWarnings(c, "critical"))
                warn == Cardinality(OverfitWarnings(c, "warning"))
            IN IF IsNone(a.dataset_path)
               THEN crit = 0 /\ warn = 0
               ELSE /\ RowsOf(a) < 10 * TrainableOf(a) => crit = 1 /\ warn = 0
                    /\ (RowsOf(a) >= 10 * TrainableOf(a)
                          /\ RowsOf(a) <= SoftRowsPerMParam * TrainableOf(a)) =>
                          crit = 0 /\ warn = 1
                    /\ RowsOf(a) > SoftRowsPerMParam * TrainableOf(a) =>
                          crit = 0 /\ warn = 0

\* 50 rows against the adapters of the 8B model: a critical overfitting warning.
C9_Witness ==
    /\ pc[1] = "done"
    /\ args[1].dataset_path = Some("tiny50.jsonl")
    /\ args[1].method = "qlora"
    /\ args[1].model_id = "meta-llama/Llama-3.1-8B"
    /\ Cardinality(OverfitWarnings(1, "critical")) = 1

----------------------------------------------------------------------------
(* C10 *)

\* C10: the search never holds a candidate above the ceiling, and every call
\* that enters solve() gets its SolverResult back.
C10_SolveTerminates ==
    /\ [](\A c \in CallIds : search[c].mbs <= MaxBatchSize)
    /\ \A c \in {1} : (pc[c] = "search") ~> (pc[c] = "trainable")

\* A search has run up to the ceiling and returned.
C10_Witness ==
    /\ pc[1] = "trainable"
    /\ Last(invoked[1]) = "solve"
    /\ search[1].mbs = MaxBatchSize
    /\ solver_result[1].recommended.micro_batch_size = MaxBatchSize

----------------------------------------------------------------------------
(* Vocabulary of the command's properties *)

\* The command's arguments, the arguments handed to api.plan, and what
\* parse_spec makes of the positional spec.
Argv == Val(cli.argv)

Handed == Val(cli.api)

SpecGiven == IsSome(cli.argv) /\ IsSome(Argv.spec)

Unparsable == SpecGiven /\ IsNone(parse_spec(Val(Argv.spec)))

FromSpec == Val(parse_spec(Val(Argv.spec)))

SpecModel == IF SpecGiven THEN Some(FromSpec.model_id) ELSE None

SpecMethod == IF SpecGiven THEN Some(FromSpec.method) ELSE None

SpecGpu == IF SpecGiven THEN Some(FromSpec.gpu) ELSE None

SpecDataset == IF SpecGiven THEN FromSpec.dataset_path ELSE None

SpecSeqLen == IF SpecGiven THEN FromSpec.seq_len ELSE None

FlagElse(flag, fromSpec) == IF IsSome(flag) THEN flag ELSE fromSpec

NonEmpty(flag) == flag # None /\ flag # Some("")

NonEmptyFlagElse(flag, fromSpec) ==
    IF NonEmpty(flag) THEN flag ELSE IF SpecGiven THEN fromSpec ELSE flag

----------------------------------------------------------------------------
(* C11 *)

----------------------------------------------------------------------------
(* C12 *)

NoReportPrinted == IsNone(cli.printed)

PlanNeverCalled == IsNone(cli.api) /\ invoked[1] = <<>> /\ pc[1] = "idle"

MissingAfterMerge == ~NonEmpty(cli.model) \/ ~NonEmpty(cli.method) \/ ~NonEmpty(cli.gpu)

----------------------------------------------------------------------------
(* Vocabulary of the node properties *)

\* The latest node call: the state it was given, as it was when the call was
\* made, and the state it returned.
In == last.before

Out == states[last.out]

Called(node) == last.node = node /\ ~last.raised

NewEvent == Last(Out.events)

IsPrefix(s, t) == Len(s) <= Len(t) /\ SubSeq(t, 1, Len(s)) = s

OneEventAppended == Out.events = Append(In.events, NewEvent)

----------------------------------------------------------------------------
(* C13 *)

GateCost == Val(In.cost_estimate).estimated_cost_usd

OverHardLimit == GateCost > In.budget_policy.max_budget_usd

WithinSoft == ~OverHardLimit /\ GateCost <= In.budget_policy.soft_threshold_usd

\* C13: budget_gate_node with a cost estimate present has exactly one of three
\* outcomes, decided by the cost alone: over max_budget_usd it logs "failed"
\* and decides "cancel"; otherwise at or under soft_threshold_usd it logs
\* "completed" and decides "approve"; otherwise it logs "interrupted" and sets
\* no decision.  A cost over the hard limit is never approved, and
\* check_auto_approve is true exactly in the second case.
C13_GateOutcomes ==
    (last.node = "budget_gate_node" /\ IsSome(In.cost_estimate)) =>
        /\ ~last.raised
        /\ NewEvent.phase = "budget_gate"
        /\ (OverHardLimit =>
               NewEvent.status = "failed" /\ Out.human_decision = Some("cancel"))
        /\ (WithinSoft =>
               NewEvent.status = "completed" /\ Out.human_decision = Some("approve"))
        /\ (~OverHardLimit /\ ~WithinSoft =>
               NewEvent.status = "interrupted" /\ Out.human_decision = In.human_decision)
        /\ (Out.human_decision = Some("approve") /\ In.human_decision # Some("approve")
               => ~OverHardLimit)
        /\ (check_auto_approve(In) <=> WithinSoft)
        /\ (Val(NewEvent.data).auto_approve <=> WithinSoft)

\* The gate was given a cost over the hard limit and under a soft threshold
\* that is above the hard limit, and cancelled.
C13_Witness ==
    /\ Called("budget_gate_node")
    /\ IsSome(In.cost_estimate)
    /\ In.budget_policy.soft_threshold_usd > In.budget_policy.max_budget_usd
    /\ OverHardLimit
    /\ GateCost <= In.budget_policy.soft_threshold_usd
    /\ Out.human_decision = Some("cancel")

----------------------------------------------------------------------------
(* C14 *)

\* C14: the event log is append-only: for every node operation and every
\* input state, the input's events are a prefix of the returned state's
\* events.
C14_AppendOnly ==
    (last.node # "none" /\ ~last.raised) => IsPrefix(In.events, Out.events)

----------------------------------------------------------------------------
(* C15 *)

SixNodes == {"estimate_cost_node", "generate_code_node", "budget_gate_node",
             "run_evals_node", "remediate_spec_node", "parse_intent_node"}

PhaseOf(node) ==
    CASE node = "estimate_cost_node" -> "estimate_cost"
      [] node = "generate_code_node" -> "generate_code"
      [] node = "budget_gate_node" -> "budget_gate"
      [] node = "run_evals_node" -> "run_evals"
      [] node = "remediate_spec_node" -> "remediate_spec"
      [] node = "parse_intent_node" -> "parse_intent"

PrerequisiteMissing ==
    \/ last.node \in {"estimate_cost_node", "generate_code_node", "remediate_spec_node"}
          /\ IsNone(In.spec)
    \/ last.node = "budget_gate_node" /\ IsNone(In.cost_estimate)
    \/ last.node = "run_evals_node" /\ IsNone(In.execution_result)

\* The work inside the node's try block raised.
ExceptionInside ==
    \/ /\ last.node = "estimate_cost_node"
       /\ IsSome(In.spec)
       /\ Val(In.spec).micro_batch_size * Val(In.spec).gradient_accumulation_steps = 0
    \/ /\ last.node = "generate_code_node"
       /\ IsSome(In.spec)
       /\ last.arg = Some("TemplateNotFound")
    \/ /\ last.node = "run_evals_node"
       /\ IsSome(In.execution_result)
       /\ "metrics" \in DOMAIN Val(In.execution_result)
       /\ "eval_loss" \in DOMAIN Val(In.execution_result).metrics
       /\ "train_loss" \notin DOMAIN Val(In.execution_result).metrics
    \/ /\ last.node = "parse_intent_node"
       /\ \E i \in 1..Len(Val(last.arg)) : IntRaises(Val(last.arg)[i])

\* C15: every call of the six nodes returns a state with exactly one new
\* event, of the node's own phase, whatever the outcome: a missing
\* prerequisite or an exception inside the node is logged as "failed" and is
\* never raised to the caller.
C15_OneEventPerCall ==
    last.node \in SixNodes =>
        /\ ~last.raised
        /\ OneEventAppended
        /\ NewEvent.phase = PhaseOf(last.node)
        /\ (PrerequisiteMissing \/ ExceptionInside => NewEvent.status = "failed")

\* The cost of a spec with micro_batch_size 0 was estimated: the division by
\* zero inside the node became a "failed" estimate_cost event.
C15_Witness ==
    /\ Called("estimate_cost_node")
    /\ ExceptionInside
    /\ NewEvent.phase = "estimate_cost"
    /\ NewEvent.status = "failed"
    /\ IsNone(Out.cost_estimate)

----------------------------------------------------------------------------
(* C16 *)

----------------------------------------------------------------------------
(* C17 *)

OldSpec == Val(In.spec)

NewSpec == Val(Out.spec)

Remediated == Called("remediate_spec_node") /\ IsSome(In.spec)

MentionsOom == {"out of memory", "cuda"} \cap KeysIn(Val(last.arg)) # {}

MentionsNan == {"nan", "loss spike"} \cap KeysIn(Val(last.arg)) # {}

\* C17: on an out-of-memory or CUDA error, remediate_spec halves a
\* micro_batch_size above 1 (integer floor, never below 1) and changes
\* nothing else; at micro_batch_size 1 it moves the method one rung along
\* full_finetune -> lora -> qlora and leaves the batch size at 1.
C17_OomRemediation ==
    (Remediated /\ MentionsOom) =>
        /\ (OldSpec.micro_batch_size > 1 =>
               /\ NewSpec = [OldSpec EXCEPT !.micro_batch_size = OldSpec.micro_batch_size \div 2]
               /\ NewSpec.micro_batch_size >= 1)
        /\ (OldSpec.micro_batch_size = 1 =>
               /\ NewSpec.micro_batch_size = 1
               /\ (OldSpec.method = "full_finetune" =>
                      NewSpec = [OldSpec EXCEPT !.method = "lora"])
               /\ (OldSpec.method = "lora" =>
                      NewSpec = [OldSpec EXCEPT !.method = "qlora"])
               /\ (OldSpec.method = "qlora" => NewSpec.method = "qlora"))

\* Two remediations of an out-of-memory error in a row: the first halved the
\* batch size from 2 to 1, the second moved full_finetune to lora.
C17_Witness ==
    /\ Len(states) = 3
    /\ Remediated
    /\ MentionsOom
    /\ last.inp = 2
    /\ IsSome(states[1].spec)
    /\ Val(states[1].spec).micro_batch_size = 2
    /\ OldSpec.micro_batch_size = 1
    /\ OldSpec.method = "full_finetune"
    /\ NewSpec.method = "lora"
    /\ NewSpec.micro_batch_size = 1

----------------------------------------------------------------------------
(* C18 *)

\* C18: on an error message that mentions NaN or a loss spike, remediate_spec
\* returns the spec with learning_rate halved and no other field changed, for
\* every spec.
C18_NanHalvesRate ==
    (Remediated /\ MentionsNan) =>
        NewSpec = [OldSpec EXCEPT !.learning_rate = HalveRate(OldSpec.learning_rate)]

----------------------------------------------------------------------------
(* C19 *)

FieldsThatDiffer ==
    (IF NewSpec.micro_batch_size # OldSpec.micro_batch_size THEN {"batch_size: "} ELSE {})
    \cup (IF NewSpec.method # OldSpec.method THEN {"method: "} ELSE {})
    \cup (IF NewSpec.learning_rate # OldSpec.learning_rate THEN {"lr: "} ELSE {})

FieldsNamed(changes) == {changes[k][1] : k \in 1..Len(changes)}

\* C19: remediate_spec_node with a spec present replaces the spec by
\* remediate_spec(spec, error), adds exactly 1 to retry_count and appends one
\* "completed" remediate_spec event whose changes name exactly the fields,
\* among batch size, method and learning rate, that differ between the old and
\* the new spec (none, reported as "no changes", when nothing was altered).
C19_RemediateNode ==
    (last.node = "remediate_spec_node" /\ IsSome(In.spec)) =>
        /\ ~last.raised
        /\ Out.spec = Some(remediate_spec(OldSpec, Val(last.arg)))
        /\ Out.retry_count = In.retry_count + 1
        /\ OneEventAppended
        /\ NewEvent.phase = "remediate_spec"
        /\ NewEvent.status = "completed"
        /\ FieldsNamed(Val(NewEvent.data).changes) = FieldsThatDiffer
        /\ Len(Val(NewEvent.data).changes) = Cardinality(FieldsThatDiffer)
        /\ (NewSpec = OldSpec <=> Val(NewEvent.data).changes = <<>>)
        /\ (NewSpec = OldSpec =>
               NewEvent.message = <<"Applied remediation: ", << <<"no changes">> >> >>)

\* A remediation that had nothing left to alter (qlora at batch size 1, an
\* error that is neither memory nor loss): the retry is counted and the event
\* reports no changes.
C19_Witness ==
    /\ Remediated
    /\ NewSpec = OldSpec
    /\ Out.retry_count = In.retry_count + 1
    /\ NewEvent.status = "completed"
    /\ Val(NewEvent.data).changes = <<>>

----------------------------------------------------------------------------
(* C20 *)

Metrics == Get(Val(In.execution_result), "metrics", <<>>)

Verdict == Val(Out.eval_result)

HasFailure(text) ==
    \E k \in 1..Len(Verdict.failures) : Verdict.failures[k][1] = text

\* C20: for every execution_result, run_evals returns a verdict with passed =
\* (failures is empty), a convergence failure iff train_loss > 2.0 or
\* train_loss is missing, and an overfitting failure iff eval_loss is reported
\* and eval_loss - train_loss > 1.0; run_evals_node stores the verdict in
\* eval_result and logs "completed" iff passed, "failed" otherwise.
C20_EvalVerdict ==
    (last.node = "run_evals_node" /\ IsSome(In.execution_result)) =>
        /\ ~last.raised
        /\ IsSome(Out.eval_result)
        /\ (Verdict.passed <=> Verdict.failures = <<>>)
        /\ (HasFailure("Loss did not converge: ") <=>
               ("train_loss" \notin DOMAIN Metrics \/ Metrics.train_loss > 2000))
        /\ (HasFailure("Severe overfitting: ") <=>
               ("eval_loss" \in DOMAIN Metrics
                   /\ Metrics.eval_loss - Metrics.train_loss > 1000))
        /\ NewEvent.phase = "run_evals"
        /\ (NewEvent.status = "completed" <=> Verdict.passed)
        /\ (NewEvent.status = "failed" <=> ~Verdict.passed)

----------------------------------------------------------------------------
(* C21 *)

LlmUnset == last.node = "parse_intent_llm" /\ Val(last.arg).llm = "no_key"

LlmRaised == last.node = "parse_intent_llm" /\ Val(last.arg).llm = "raises"

\* An event of the returned log says which parser was used.
LoggedParser(parser) ==
    \E i \in 1..Len(Out.events) :
        /\ IsSome(Out.events[i].data)
        /\ "parser" \in DOMAIN Val(Out.events[i].data)
        /\ Val(Out.events[i].data).parser = parser

\* C21: without an API key or when the LLM call raises, parse_intent_llm
\* returns a state whose spec is set, raises nothing, and logs a fallback
\* caused by an LLM error with parser = "rule_fallback".
C21_AlwaysASpec ==
    (LlmUnset \/ LlmRaised) =>
        /\ ~last.raised
        /\ IsSome(Out.spec)
        /\ (LlmRaised => LoggedParser("rule_fallback"))

----------------------------------------------------------------------------
(* C22 *)

\* The call has resolved its sequence length and gone on to the solver.
SeqLenResolved(c) == pc[c] \in {"solver", "search"} \cup AfterSolver

\* C22: every sequence length plan() hands to the solver and reports as
\* seq_len_used is a positive integer, whichever of the three branches
\* produced it and whatever DatasetProfile the analyzer returned.
C22_SeqLenPositive ==
    \A c \in CallIds :
        /\ SeqLenResolved(c) => resolved[c].seq_len > 0
        /\ pc[c] = "done" => Val(report[c]).seq_len_used > 0

----------------------------------------------------------------------------
(* C23 *)

\* What the solver returned to the call, before anything was added to it.
SolverOwn(c) ==
    IF UsesFixed(args[c].batch_size)
    THEN estimate_fixed(model_profile[c], hardware[c], training_method[c],
                        Val(args[c].batch_size), resolved[c].seq_len,
                        args[c].lora_rank, args[c].eval_seq_len)
    ELSE SolveResult(model_profile[c], hardware[c], training_method[c],
                     args[c].lora_rank, resolved[c].seq_len, args[c].eval_seq_len,
                     search[c])

\* The checker's warnings for the call's dataset and recommended configuration.
SanityOf(c) ==
    check_training_sanity(Val(dataset[c]), SolverOwn(c).recommended, trainable[c])

\* The place of the first call of `callee` in the call's history, 0 if none.
FirstCall(c, callee) ==
    IF Contains(invoked[c], callee)
    THEN CHOOSE i \in 1..Len(invoked[c]) :
            /\ invoked[c][i] = callee
            /\ \A j \in 1..(i - 1) : invoked[c][j] # callee
    ELSE 0

SolverCall(c) == Max2(FirstCall(c, "estimate_fixed"), FirstCall(c, "solve"))

\* C23: plan() calls check_training_sanity only when a dataset was analyzed,
\* once, on the solver's recommended configuration and after the solver has
\* returned; its warnings follow the solver's own in the checker's order, each
\* as "[severity] category: message"; recommended, aggressive and the verdict
\* are the solver's; without a dataset the warnings are exactly the solver's.
C23_SanityAdvisory ==
    \A c \in CallIds :
        /\ pc[c] \in {"solver", "search", "trainable", "sanity"} =>
              ~Contains(invoked[c], "check_training_sanity")
        /\ pc[c] = "done" =>
              LET sr == Val(report[c]).solver_result
                  own == SolverOwn(c)
              IN  /\ sr.recommended = own.recommended
                  /\ sr.aggressive = own.aggressive
                  /\ sr.recommended.reasoning.verdict = own.recommended.reasoning.verdict
                  /\ IF IsSome(args[c].dataset_path)
                     THEN /\ Count(invoked[c], "check_training_sanity") = 1
                          /\ SolverCall(c) > 0
                          /\ FirstCall(c, "check_training_sanity") > SolverCall(c)
                          /\ Len(sr.warnings) = Len(own.warnings) + Len(SanityOf(c))
                          /\ SubSeq(sr.warnings, 1, Len(own.warnings)) = own.warnings
                          /\ \A i \in 1..Len(SanityOf(c)) :
                                sr.warnings[Len(own.warnings) + i] =
                                   <<"[", SanityOf(c)[i].severity, "] ",
                                     SanityOf(c)[i].category, ": ",
                                     SanityOf(c)[i].message>>
                     ELSE /\ ~Contains(invoked[c], "check_training_sanity")
                          /\ sr.warnings = own.warnings

\* A report whose warnings are one of the solver's followed by two of the
\* sanity checker's.
C23_Witness ==
    /\ pc[1] = "done"
    /\ IsSome(args[1].dataset_path)
    /\ Len(SolverOwn(1).warnings) >= 1
    /\ Len(SanityOf(1)) = 2
    /\ Len(Val(report[1]).solver_result.warnings) = Len(SolverOwn(1).warnings) + 2

----------------------------------------------------------------------------
(* C24, C25 *)

GateCalled == Called("budget_gate_node") /\ IsSome(In.cost_estimate)

\* C24: whenever budget_gate_node records an "interrupted" event, the state
\* it returns has human_decision = None, whatever the input state held.
C24_InterruptedHasNoDecision ==
    (GateCalled /\ NewEvent.status = "interrupted") => IsNone(Out.human_decision)

\* C25: when budget_policy.allow_auto_approve is false, check_auto_approve
\* returns false and budget_gate_node never sets human_decision to "approve",
\* whatever the estimated cost.
C25_AutoApproveCanBeOff ==
    (GateCalled /\ ~In.budget_policy.allow_auto_approve) =>
        /\ ~check_auto_approve(In)
        /\ ~Val(NewEvent.data).auto_approve
        /\ (IsNone(In.human_decision) => Out.human_decision # Some("approve"))

----------------------------------------------------------------------------
(* C26 *)

\* The latest state of the run.
Current == Last(states)

\* C26: in every state reached from an initial state with retry_count = 0 by
\* any sequence of node operations, repeated remediate_spec_node calls
\* included, retry_count <= max_retries.
C26_RetriesBounded ==
    \A i \in 1..Len(states) : states[i].retry_count <= states[i].max_retries

----------------------------------------------------------------------------
(* C27 *)

\* floor(log2(n)) for n >= 1
RECURSIVE Log2(_)
Log2(n) == IF n <= 1 THEN 0 ELSE 1 + Log2(n \div 2)

CurrentSpec == Val(Current.spec)

FirstSpec == Val(states[1].spec)

\* The number of remediations made so far.
Retries == Len(states) - 1

Converged == CurrentSpec.micro_batch_size = 1 /\ CurrentSpec.method = "qlora"

\* C27: out-of-memory remediation applied again and again reaches
\* (micro_batch_size = 1, method = qlora), after at most
\* floor(log2(micro_batch_size)) + 2 steps, and from then on remediate_spec
\* returns its input unchanged: no further retry alters the spec.
C27_RemediationConverges ==
    /\ <>Converged
    /\ [](Retries >= Log2(FirstSpec.micro_batch_size) + 2 => Converged)
    /\ [](Converged =>
             remediate_spec(CurrentSpec, "CUDA out of memory") = CurrentSpec)
    /\ [][Converged => Val(Last(states').spec) = CurrentSpec]_vars

\* A full fine-tune at batch size 8 has come down to qlora at batch size 1
\* in five retries, and a sixth has left the spec as it was.
C27_Witness ==
    /\ FirstSpec.method = "full_finetune"
    /\ FirstSpec.micro_batch_size = MaxBatch
    /\ Retries = Log2(MaxBatch) + 3
    /\ Converged
    /\ Val(states[Len(states) - 1].spec) = CurrentSpec
    /\ ~(Val(states[Len(states) - 2].spec).method = "qlora")

----------------------------------------------------------------------------
(* C28 *)

\* The place of a method on the ladder full_finetune -> lora -> qlora.
Rung(method) == CASE method = "full_finetune" -> 1
                  [] method = "lora" -> 2
                  [] method = "qlora" -> 3

\* A learning rate m * 2^e on a scale where every exponent met is a natural.
Scaled(learning_rate) == learning_rate.m * 2 ^ (learning_rate.e + 8)

----------------------------------------------------------------------------
(* C29 *)

\* C29: estimate_cost_node, generate_code_node and remediate_spec_node
\* without a spec, budget_gate_node without a cost estimate and run_evals_node
\* without an execution result return the input state with one "failed"
\* event appended: spec, cost_estimate, generated_code, execution_result,
\* eval_result, human_decision and retry_count are unchanged.
C29_MissingPrerequisite ==
    PrerequisiteMissing =>
        /\ ~last.raised
        /\ OneEventAppended
        /\ NewEvent.status = "failed"
        /\ NewEvent.phase = PhaseOf(last.node)
        /\ Out.spec = In.spec
        /\ Out.cost_estimate = In.cost_estimate
        /\ Out.generated_code = In.generated_code
        /\ Out.execution_result = In.execution_result
        /\ Out.eval_result = In.eval_result
        /\ Out.human_decision = In.human_decision
        /\ Out.retry_count = In.retry_count
        /\ Out = [In EXCEPT !.events = Out.events]

\* remediate_spec_node was called on a state without a spec that holds a
\* cost estimate and a decision: both are handed back and no retry is counted.
C29_Witness ==
    /\ Called("remediate_spec_node")
    /\ IsNone(In.spec)
    /\ IsSome(In.cost_estimate)
    /\ IsSome(In.human_decision)
    /\ NewEvent.status = "failed"
    /\ Out.retry_count = 0

----------------------------------------------------------------------------
(* C30 *)

\* The places of the parse_intent events of a log that carry a parsed spec.
IntentEvents(events) ==
    {i \in 1..Len(events) :
        /\ events[i].phase = "parse_intent"
        /\ IsSome(events[i].data)
        /\ "parsed_spec" \in DOMAIN Val(events[i].data)}

\* The data of the latest of them: the event that produced the state's spec.
LatestIntent(events) ==
    Val(events[CHOOSE i \in IntentEvents(events) :
                   \A j \in IntentEvents(events) : j <= i].data)

Estimated ==
    /\ Called("estimate_cost_node")
    /\ IsSome(In.spec)
    /\ IsSome(Out.cost_estimate)
    /\ NewEvent.status = "completed"
    /\ IntentEvents(In.events) # {}
    /\ LatestIntent(In.events).parsed_spec = Val(In.spec)

\* C30: the model metadata estimate_cost_node uses (estimated_params_b,
\* is_moe) is that of the parse_intent event which produced state.spec, the
\* latest one and not an earlier event's; when that event carries no metadata
\* the size is inferred from spec.model_name.
C30_EstimateOfCurrentSpec ==
    Estimated =>
        LET meta == LatestIntent(In.events)
            name == Val(In.spec).model_name
            used == Val(Out.cost_estimate).cost_breakdown
        IN  /\ used.model_params_b =
                  IF "estimated_params_b" \in DOMAIN meta /\ meta.estimated_params_b > 0
                  THEN meta.estimated_params_b
                  ELSE _estimate_params_b(name)
            /\ used.is_moe = (("is_moe" \in DOMAIN meta /\ meta.is_moe) \/ _is_moe(name))

====
